---- MODULE Spec2Model ----
(***************************************************************************)
(* Vafrum Core bridge (main.js and main-headless.js): device connection    *)
(* manager with reconnect backoff, the printer registry, camera stream     *)
(* registration, and the telemetry merge done by the MQTT 'message'        *)
(* handler.  Every event-loop callback is one atomic action.               *)
(***************************************************************************)
EXTENDS Integers, Sequences, FiniteSets, TLC

\* ------------------------------------------------------------------------
\* Bounds of the model
\* ------------------------------------------------------------------------
MaxClients == 2      \* MQTT client objects alive at once, per serial
MaxTimers == 2       \* pending reconnect timers at once, per serial
MaxAttempts == 2     \* cap on reconnectAttempts (connection specification)
MaxBackoff == 7      \* cap on reconnectAttempts (backoff specification)
MaxPending == 2      \* cap on the length of pendingStreams
MaxFields == 2       \* fields carried by one partial report
MaxReports == 2      \* reports merged after a connect (merge specification)
MaxRelays == 2       \* cap on the go2rtc processes alive at once
MaxTunnels == 2      \* cap on the cloudflared processes alive at once
MaxTunnelTimers == 1 \* cap on the pending tunnel restart timers
MaxTunnelAttempts == 1  \* cap on tunnelRestartAttempts
MaxSockets == 3      \* cap on the camera sockets that have not closed yet
MaxCamTimers == 2    \* cap on the pending camera reconnect timers
MaxCamAttempts == 2  \* cap on streamData.reconnectAttempts
MaxClock == 4        \* ticks of the clock (error specification)
MaxErrorLogs == 3    \* transport errors logged per serial (error specification)
MaxCommands == 2     \* commands handled (command specification)
MaxViewers == 2      \* viewers that attach to an MJPEG stream (viewer specification)

\* ------------------------------------------------------------------------
\* JavaScript undefined / null, per value type
\* ------------------------------------------------------------------------
UndefNum == 0 - 1
UndefStr == "undefined"
UndefList == <<0 - 1>>

\* a ?? b
Coalesce(a, b, undef) == IF a # undef THEN a ELSE b

\* ------------------------------------------------------------------------
\* Packed temperatures (32-bit signed integers, as JavaScript bit operators
\* see them).  An optional number is <<>> (undefined) or <<n>>.
\* ------------------------------------------------------------------------
\* n & 0xFFFF on an int32
BitAnd16(n) == n % 65536

\* n >> 16 on an int32 (arithmetic shift)
ShiftRight16(n) == n \div 65536

\* a decodeTemp that forgets the mask after the shift
decodeTempNoMask(encoded) ==
    IF encoded = <<>> \/ encoded[1] = 0
    THEN [current |-> 0, target |-> 0]
    ELSE [current |-> BitAnd16(encoded[1]), target |-> ShiftRight16(encoded[1])]

decodeTemp(encoded) ==
    IF encoded = <<>> \/ encoded[1] = 0
    THEN [current |-> 0, target |-> 0]
    ELSE [current |-> BitAnd16(encoded[1]),
          target |-> BitAnd16(ShiftRight16(encoded[1]))]

\* (target << 16) | current, the int32 JavaScript computes
encodeTemp(current, target) ==
    IF target >= 32768 THEN (target - 65536) * 65536 + current
    ELSE target * 65536 + current

\* ------------------------------------------------------------------------
\* Printer models and descriptors
\* ------------------------------------------------------------------------
Models == {"A1", "X1C", "H2D"}

\* model.toUpperCase().includes('A1') || includes('P1')
isA1P1Model(model) == model = "A1"

\* an H2 test that misses the H2D
isH2OnlyH2S(model) == model = "H2S"

\* model?.toUpperCase()?.includes('H2')
isH2(model) == model = "H2D"

\* ------------------------------------------------------------------------
\* Registry entries: descriptor fields plus the telemetry snapshot
\* ------------------------------------------------------------------------
PrintingStates == {"RUNNING", "PAUSE", "PREPARE"}
IdleStates == {"IDLE", "FINISH"}

\* status.ams of an entry that has none yet (undefined)
NoAmsStatus == [defined |-> FALSE, humidity |-> UndefNum, trayNow |-> UndefNum,
                units |-> <<>>, trays |-> <<>>]

NoPrinter ==
    [present |-> FALSE, online |-> FALSE, model |-> UndefStr,
     gcodeState |-> UndefStr, printProgress |-> UndefNum,
     remainingTime |-> UndefNum, currentFile |-> UndefStr,
     layer |-> UndefNum, totalLayers |-> UndefNum,
     nozzleTemp |-> UndefNum, nozzleTargetTemp |-> UndefNum,
     nozzleTemp2 |-> UndefNum, nozzleTargetTemp2 |-> UndefNum,
     bedTemp |-> UndefNum, bedTargetTemp |-> UndefNum,
     chamberTemp |-> UndefNum, partFan |-> UndefNum,
     printError |-> UndefNum, printErrorCode |-> UndefStr,
     hms |-> UndefList, ams |-> NoAmsStatus]

\* { ...printer, online: true }
ConnectEntry(model) == [NoPrinter EXCEPT !.present = TRUE, !.online = TRUE,
                                         !.model = model]

\* ------------------------------------------------------------------------
\* Device reports: the data.print object of one MQTT message.  hasPrint is
\* FALSE for a message keyed only by info / system.
\* ------------------------------------------------------------------------
\* p.ams absent
NoAms == [present |-> FALSE, ams_humidity |-> UndefNum, tray_now |-> UndefNum,
          isArray |-> FALSE, ams |-> <<>>]

\* one feeder unit with a loaded and an empty tray, and a null in place of a unit
AmsUnit == [null |-> FALSE, humidity_raw |-> 40, tray |-> <<"PLA", "">>]
NullUnit == [null |-> TRUE, humidity_raw |-> UndefNum, tray |-> <<>>]

\* p.ams objects: with and without ams_humidity and tray_now; p.ams.ams no array,
\* an empty array, an array of one unit, an array holding null
AmsVals ==
    {[present |-> TRUE, ams_humidity |-> h, tray_now |-> t, isArray |-> a[1], ams |-> a[2]] :
        h \in {UndefNum, 3}, t \in {UndefNum, 1},
        a \in {<<FALSE, <<>> >>, <<TRUE, <<>> >>, <<TRUE, <<AmsUnit>> >>,
               <<TRUE, <<NullUnit>> >>}}

\* p.lights_report: absent, an array, a value that is no array
LightsArray == "array"
LightsOther == "string"

EmptyPrint ==
    [hasPrint |-> TRUE, valid |-> TRUE,
     lights_report |-> UndefStr, ams |-> NoAms,
     gcode_state |-> UndefStr, mc_percent |-> UndefNum,
     mc_remaining_time |-> UndefNum, gcode_file |-> UndefStr,
     subtask_name |-> UndefStr, layer_num |-> UndefNum,
     total_layer_num |-> UndefNum,
     nozzle_temper |-> UndefNum, nozzle_target_temper |-> UndefNum,
     nozzle_temper_2 |-> UndefNum, nozzle_target_temper_2 |-> UndefNum,
     bed_temper |-> UndefNum, bed_target_temper |-> UndefNum,
     chamber_temper |-> UndefNum, info_temp |-> UndefNum,
     ctc_temp |-> UndefNum,
     device_extruder |-> <<>>, extruder_info |-> <<>>,
     cooling_fan_speed |-> UndefNum,
     print_error |-> UndefNum, mc_print_error_code |-> UndefStr,
     hms |-> UndefList]

InfoOnly == [EmptyPrint EXCEPT !.hasPrint = FALSE]

\* a payload that JSON.parse rejects
Unparseable == [EmptyPrint EXCEPT !.valid = FALSE]

\* 0x00E10096 and 0x00C80087
PackedLeft == encodeTemp(150, 225)
PackedRight == encodeTemp(135, 200)

FieldVals ==
    [gcode_state |-> {"RUNNING", "PAUSE", "PREPARE", "IDLE", "FINISH", "FAILED"},
     mc_percent |-> {0, 50},
     mc_remaining_time |-> {10},
     gcode_file |-> {"", "a.gcode"},
     subtask_name |-> {"job"},
     layer_num |-> {3},
     total_layer_num |-> {9},
     nozzle_temper |-> {210},
     nozzle_target_temper |-> {220},
     nozzle_temper_2 |-> {205},
     nozzle_target_temper_2 |-> {215},
     bed_temper |-> {60},
     bed_target_temper |-> {65},
     chamber_temper |-> {35},
     info_temp |-> {33},
     ctc_temp |-> {30, 65576},
     device_extruder |-> {<< <<PackedLeft>> >>, << <<PackedLeft>>, <<PackedRight>> >>},
     extruder_info |-> {<< <<PackedRight>> >>, << <<PackedRight>>, <<PackedLeft>> >>},
     cooling_fan_speed |-> {40},
     print_error |-> {0, 5},
     mc_print_error_code |-> {"E1"},
     hms |-> {<<>>, <<7>>},
     lights_report |-> {LightsArray, LightsOther},
     ams |-> AmsVals]

\* The report fields that are resolved together; gcode_state goes with each
Families ==
    {{"gcode_file", "subtask_name", "mc_percent", "mc_remaining_time",
      "layer_num", "total_layer_num"},
     {"nozzle_temper", "nozzle_target_temper", "nozzle_temper_2",
      "nozzle_target_temper_2", "device_extruder", "extruder_info"},
     {"bed_temper", "bed_target_temper", "chamber_temper", "info_temp",
      "ctc_temp", "cooling_fan_speed"},
     {"print_error", "mc_print_error_code", "hms"},
     {"ams", "lights_report", "ctc_temp"}}

\* r with one more field of fields set
WithField(r, fields) ==
    UNION {{[r EXCEPT ![f] = v] : v \in FieldVals[f]} : f \in fields}

RECURSIVE ReportsUpTo(_, _)
ReportsUpTo(k, fields) ==
    IF k = 0 THEN {EmptyPrint}
    ELSE LET less == ReportsUpTo(k - 1, fields)
         IN less \cup UNION {WithField(r, fields) : r \in less}

\* the print reports carrying at most MaxFields fields, taken from the
\* lifecycle field and one family, and an info-only message
Reports ==
    UNION {ReportsUpTo(MaxFields, F \cup {"gcode_state"}) : F \in Families}
        \cup {InfoOnly, Unparseable}

\* ------------------------------------------------------------------------
\* The telemetry merge of the 'message' handler
\* ------------------------------------------------------------------------
\* CTC chamber temperature: written into the registry entry before the merge
ctcUpdate(entry, p) ==
    IF p.ctc_temp # UndefNum
    THEN [(IF entry.present THEN entry ELSE [NoPrinter EXCEPT !.present = TRUE])
              EXCEPT !.chamberTemp = BitAnd16(p.ctc_temp)]
    ELSE entry

\* p.gcode_state ?? prevStatus.gcodeState
currentState(prevStatus, p) == Coalesce(p.gcode_state, prevStatus.gcodeState, UndefStr)

\* a cleanup that leaves the cached progress alone
staleCleanupKeepsProgress(prevStatus, p) ==
    IF currentState(prevStatus, p) \in IdleStates
    THEN LET e == IF p.print_error = UndefNum \/ p.print_error = 0
                  THEN [prevStatus EXCEPT !.printError = 0, !.printErrorCode = ""]
                  ELSE prevStatus
         IN [e EXCEPT !.remainingTime = 0,
                      !.nozzleTargetTemp = 0, !.nozzleTargetTemp2 = 0,
                      !.bedTargetTemp = 0, !.hms = <<>>]
    ELSE prevStatus

\* a cleanup that never clears the cached error
staleCleanupKeepsError(prevStatus, p) ==
    IF currentState(prevStatus, p) \in IdleStates
    THEN [prevStatus EXCEPT !.printProgress = 0, !.remainingTime = 0,
                            !.nozzleTargetTemp = 0, !.nozzleTargetTemp2 = 0,
                            !.bedTargetTemp = 0, !.hms = <<>>]
    ELSE prevStatus

\* Stale-data cleanup of the cached values, done in place on prevStatus
staleCleanup(prevStatus, p) ==
    IF currentState(prevStatus, p) \in IdleStates
    THEN LET e == IF p.print_error = UndefNum \/ p.print_error = 0
                  THEN [prevStatus EXCEPT !.printError = 0, !.printErrorCode = ""]
                  ELSE prevStatus
         IN [e EXCEPT !.printProgress = 0, !.remainingTime = 0,
                      !.nozzleTargetTemp = 0, !.nozzleTargetTemp2 = 0,
                      !.bedTargetTemp = 0, !.hms = <<>>]
    ELSE prevStatus

\* wasPrinting && nowIdle
isTransition(prevStatus, p) ==
    /\ prevStatus.gcodeState \in PrintingStates
    /\ currentState(prevStatus, p) \in IdleStates

\* Printing-to-idle transition: the cached actual temperatures are reset
transitionReset(prevStatus, p) ==
    IF isTransition(prevStatus, p)
    THEN [prevStatus EXCEPT !.nozzleTemp = 0, !.nozzleTemp2 = UndefNum,
                            !.bedTemp = 0, !.chamberTemp = 0]
    ELSE prevStatus

\* Nozzle source selection: legacy fields, device.extruder.info, extruder.info
nozzleSelect(prevStatus, p, isH2Model) ==
    LET n1 == IF isH2Model THEN Coalesce(prevStatus.nozzleTemp, 0, UndefNum)
              ELSE Coalesce(p.nozzle_temper,
                            Coalesce(prevStatus.nozzleTemp, 0, UndefNum), UndefNum)
        t1 == IF isH2Model THEN Coalesce(prevStatus.nozzleTargetTemp, 0, UndefNum)
              ELSE Coalesce(p.nozzle_target_temper,
                            Coalesce(prevStatus.nozzleTargetTemp, 0, UndefNum), UndefNum)
        n2 == IF isH2Model THEN prevStatus.nozzleTemp2
              ELSE Coalesce(p.nozzle_temper_2, prevStatus.nozzleTemp2, UndefNum)
        t2 == IF isH2Model THEN prevStatus.nozzleTargetTemp2
              ELSE Coalesce(p.nozzle_target_temper_2, prevStatus.nozzleTargetTemp2, UndefNum)
        deviceExtruder == p.device_extruder
    IN IF Len(deviceExtruder) >= 1
       THEN LET left == decodeTemp(deviceExtruder[1])
            IN IF Len(deviceExtruder) >= 2
               THEN LET right == decodeTemp(deviceExtruder[2])
                    IN [nozzle1Temp |-> left.current, nozzle1Target |-> left.target,
                        nozzle2Temp |-> right.current, nozzle2Target |-> right.target]
               ELSE [nozzle1Temp |-> left.current, nozzle1Target |-> left.target,
                     nozzle2Temp |-> n2, nozzle2Target |-> t2]
       ELSE IF Len(p.extruder_info) >= 2
       THEN LET left == decodeTemp(p.extruder_info[1])
                right == decodeTemp(p.extruder_info[2])
            IN [nozzle1Temp |-> left.current, nozzle1Target |-> left.target,
                nozzle2Temp |-> right.current, nozzle2Target |-> right.target]
       ELSE [nozzle1Temp |-> n1, nozzle1Target |-> t1,
             nozzle2Temp |-> n2, nozzle2Target |-> t2]

\* p.chamber_temper ?? (H2 ? p.info?.temp : undefined)
chamberTempValue(p, isH2Model) ==
    Coalesce(p.chamber_temper, IF isH2Model THEN p.info_temp ELSE UndefNum, UndefNum)

\* s is truthy
Truthy(s) == s # UndefStr /\ s # ""

\* a job name without the final default
currentFileNoDefault(prevStatus, p) ==
    IF Truthy(p.gcode_file) THEN p.gcode_file
    ELSE IF Truthy(p.subtask_name) THEN p.subtask_name
    ELSE prevStatus.currentFile

\* p.gcode_file || p.subtask_name || prevStatus.currentFile || ''
currentFile(prevStatus, p) ==
    IF Truthy(p.gcode_file) THEN p.gcode_file
    ELSE IF Truthy(p.subtask_name) THEN p.subtask_name
    ELSE IF Truthy(prevStatus.currentFile) THEN prevStatus.currentFile
    ELSE ""

\* a hazard list that appends the report's list to the cached one
hmsListAppends(prevStatus, p) ==
    LET cached == Coalesce(prevStatus.hms, <<>>, UndefList)
    IN IF p.hms # UndefList THEN cached \o p.hms ELSE cached

\* Array.isArray(p.hms) ? p.hms : (prevStatus.hms || [])
hmsList(prevStatus, p) ==
    IF p.hms # UndefList THEN p.hms ELSE Coalesce(prevStatus.hms, <<>>, UndefList)

\* the trays of unit unitIdx (0-based) that carry data, from slot t on
RECURSIVE unitTrays(_, _, _)
unitTrays(unit, unitIdx, t) ==
    IF t > Len(unit.tray) THEN <<>>
    ELSE (IF Truthy(unit.tray[t])
          THEN <<[id |-> unitIdx * 4 + (t - 1), unitId |-> unitIdx, slot |-> t - 1,
                  type |-> unit.tray[t]]>>
          ELSE <<>>) \o unitTrays(unit, unitIdx, t + 1)

\* p.ams.ams.forEach: the units and trays of a full tray update, from unit u on
RECURSIVE amsRebuild(_, _)
amsRebuild(units, u) ==
    IF u > Len(units) THEN [units |-> <<>>, trays |-> <<>>]
    ELSE LET rest == amsRebuild(units, u + 1)
         IN [units |-> <<[id |-> u - 1, humidity |-> units[u].humidity_raw]>> \o rest.units,
             trays |-> unitTrays(units[u], u - 1, 1) \o rest.trays]

\* an AMS merge that keeps nothing of the previous units and trays
amsMergeForgetsUnits(prevStatus, p) ==
    IF ~p.ams.present THEN prevStatus.ams
    ELSE LET prevAms == prevStatus.ams
             built == amsRebuild(p.ams.ams, 1)
         IN [defined |-> TRUE,
             humidity |-> Coalesce(p.ams.ams_humidity, prevAms.humidity, UndefNum),
             trayNow |-> Coalesce(p.ams.tray_now, prevAms.trayNow, UndefNum),
             units |-> IF p.ams.isArray THEN built.units ELSE <<>>,
             trays |-> IF p.ams.isArray THEN built.trays ELSE <<>>]

\* AMS merge: humidity and tray_now from the report or the previous status, units
\* and trays rebuilt on a full tray update; then ams || prevStatus.ams
amsMerge(prevStatus, p) ==
    IF ~p.ams.present THEN prevStatus.ams
    ELSE LET prevAms == prevStatus.ams
             built == amsRebuild(p.ams.ams, 1)
         IN [defined |-> TRUE,
             humidity |-> Coalesce(p.ams.ams_humidity, prevAms.humidity, UndefNum),
             trayNow |-> Coalesce(p.ams.tray_now, prevAms.trayNow, UndefNum),
             units |-> IF p.ams.isArray THEN built.units ELSE prevAms.units,
             trays |-> IF p.ams.isArray THEN built.trays ELSE prevAms.trays]

\* a field of unexpected shape raises a TypeError: lights_report.map on a value that
\* is no array, unit.humidity_raw on a null unit
throws(p) ==
    \/ p.lights_report = LightsOther
    \/ p.ams.present /\ p.ams.isArray /\ \E u \in 1..Len(p.ams.ams) : p.ams.ams[u].null

\* The status object and its spread over the registry entry
buildStatus(entry, prevStatus, p) ==
    LET isH2Model == isH2(entry.model)
        nz == nozzleSelect(prevStatus, p, isH2Model)
    IN [present |-> TRUE, online |-> TRUE, model |-> entry.model,
        gcodeState |-> Coalesce(p.gcode_state,
                          Coalesce(prevStatus.gcodeState, "IDLE", UndefStr), UndefStr),
        printProgress |-> Coalesce(p.mc_percent,
                          Coalesce(prevStatus.printProgress, 0, UndefNum), UndefNum),
        remainingTime |-> Coalesce(p.mc_remaining_time,
                          Coalesce(prevStatus.remainingTime, 0, UndefNum), UndefNum),
        currentFile |-> currentFile(prevStatus, p),
        layer |-> Coalesce(p.layer_num, Coalesce(prevStatus.layer, 0, UndefNum), UndefNum),
        totalLayers |-> Coalesce(p.total_layer_num,
                          Coalesce(prevStatus.totalLayers, 0, UndefNum), UndefNum),
        nozzleTemp |-> nz.nozzle1Temp,
        nozzleTargetTemp |-> nz.nozzle1Target,
        nozzleTemp2 |-> nz.nozzle2Temp,
        nozzleTargetTemp2 |-> nz.nozzle2Target,
        bedTemp |-> Coalesce(p.bed_temper, Coalesce(prevStatus.bedTemp, 0, UndefNum), UndefNum),
        bedTargetTemp |-> Coalesce(p.bed_target_temper,
                          Coalesce(prevStatus.bedTargetTemp, 0, UndefNum), UndefNum),
        chamberTemp |-> Coalesce(chamberTempValue(p, isH2Model),
                          Coalesce(prevStatus.chamberTemp, 0, UndefNum), UndefNum),
        partFan |-> Coalesce(p.cooling_fan_speed, prevStatus.partFan, UndefNum),
        printError |-> Coalesce(p.print_error,
                          Coalesce(prevStatus.printError, 0, UndefNum), UndefNum),
        printErrorCode |-> Coalesce(p.mc_print_error_code,
                          Coalesce(prevStatus.printErrorCode, "", UndefStr), UndefStr),
        hms |-> hmsList(prevStatus, p),
        ams |-> amsMerge(prevStatus, p)]

\* The whole 'message' handler on one registry entry; an exception leaves the
\* handler through the empty catch
mergeReport(entry, p) ==
    IF ~p.valid \/ ~p.hasPrint THEN entry
    ELSE LET stored == ctcUpdate(entry, p)
             prevStatus == transitionReset(staleCleanup(stored, p), p)
         IN IF throws(p) THEN stored
            ELSE buildStatus(stored, prevStatus, p)

\* ------------------------------------------------------------------------
\* Reconnect backoff
\* ------------------------------------------------------------------------
RECURSIVE Pow2(_)
Pow2(n) == IF n = 0 THEN 1 ELSE 2 * Pow2(n - 1)

Min(a, b) == IF a < b THEN a ELSE b

\* Math.min(5000 * Math.pow(2, attempts), 120000)
reconnectDelay(attempts) == Min(5000 * Pow2(attempts), 120000)

\* ------------------------------------------------------------------------
\* State
\* ------------------------------------------------------------------------
Serials == {"S1"}

NoDescriptor == "none"
NoUrl == "none"
NoTunnelUrl == ""
NoLog == 0 - 1

\* the throttle window of the 'error' handler and the length of one clock tick, in ms
ErrorThrottleMs == 60000
TickMs == 30000

VARIABLES
    deviceModel,             \* serial -> model of the printer the control plane announces
    clients,                 \* MQTT client objects that have not emitted 'close' yet
    mqttClients,             \* serial -> id of the recorded client, 0 when none
    printers,                \* serial -> registry entry
    printerDataCache,        \* serial -> cached descriptor (its model)
    printerReconnectTimers,  \* serial -> id of the recorded timer, 0 when none
    timers,                  \* reconnect timers set by setTimeout and not yet fired or cleared
    reconnectAttempts,       \* serial -> attempts count (absent counts as 0)
    cameraUrls,              \* serial -> camera URL
    cameraStreams,           \* serials s with a go2rtc stream cam_s
    jpegStreams,             \* serials with a JPEG stream record
    pendingStreams,          \* stream registrations queued until go2rtc is ready
    go2rtcReady,
    go2rtcReadyTimer,        \* the 2 s readiness timer of startGo2rtc is pending
    requests,                \* stream names with a PUT to the go2rtc API awaiting its response
    announced,               \* history: serials announced and not removed or voided since
    removedWithTimer,        \* history: serials removed while a reconnect timer was pending
    losses,                  \* history: serial -> closes since the last successful connect
    prevEntry,               \* history: the registry entry before the last merged report
    lastReport,              \* history: the last merged report
    nrep,                    \* history: reports received since the last connect
    tempIn,                  \* packed temperature: the pair that was encoded
    tempPhase,               \* packed temperature: "input", "packed" or "decoded"
    decoded,                 \* packed temperature: the result of decodeTemp
    outbox,                  \* messages published to request topics, in order
    pushallTimers,           \* clients with a pushall pending after an AMS filament setting
    commands,                \* history: the commands handled, in order
    jpegStream,              \* JPEG socket: the bytes the camera sends
    jpegRest,                \* JPEG socket: the bytes not yet delivered by 'data'
    jpegBuffer,              \* streamData.buffer
    jpegFrames,              \* frames handed to sendJpegFrame / lastFrame, in order
    relays,                  \* go2rtc processes spawned and not yet exited
    go2rtcProcess,           \* id of the process the handle refers to, 0 when null
    go2rtcIntentionalKill,
    isQuitting,              \* app.isQuitting / isQuitting
    go2rtcWatchdogTimer,     \* the 3 s restart timer of the 'close' handler is pending
    go2rtcRestartTimer,      \* the 2 s debounce timer of the fallback restart is pending
    go2rtcSettleTimer,       \* the 500 ms timer of restartGo2rtcWithAllStreams is pending
    go2rtcConfig,            \* streams listed in the go2rtc.yaml written by the fallback
    tunnels,                 \* cloudflared processes spawned and not yet exited
    tunnelProcess,           \* id of the process the handle refers to, 0 when null
    tunnelRestartTimer,      \* the handle of a tunnel restart timer is set
    tunnelTimers,            \* tunnel restart timers set and not yet fired or cleared
    tunnelRestartAttempts,   \* restarts since the last reported tunnel URL
    tunnelUrl,               \* config.tunnelUrl, "" when none
    apiConnected,            \* apiSocket?.connected
    offlineEmits,            \* serial -> parity of the offline statuses emitted to the control plane
    streamData,              \* serial -> the streamData record of its JPEG stream
    camSockets,              \* TLS sockets to cameras that have not emitted 'close' yet
    camTimers,               \* serial -> camera reconnect timers set and not yet fired
    clock,                   \* Date.now() in ticks of TickMs since the program started
    mqttErrorThrottle,       \* serial -> tick of the last logged error, NoLog when absent
    errorLog,                \* history: serial -> ticks of the transport errors logged, in order
    viewers                  \* HTTP responses registered as MJPEG viewers, with the frames written to each

connVars == <<deviceModel, clients, mqttClients, printers, printerDataCache, printerReconnectTimers,
              timers, reconnectAttempts, losses>>
sockVars == <<streamData, camSockets, camTimers>>
camVars == <<cameraUrls, cameraStreams, jpegStreams, pendingStreams, go2rtcReady,
             go2rtcReadyTimer, requests, sockVars>>
histVars == <<announced, removedWithTimer>>
mergeVars == <<prevEntry, lastReport, nrep>>
tempVars == <<tempIn, tempPhase, decoded>>
cmdVars == <<outbox, pushallTimers, commands>>
jpegVars == <<jpegStream, jpegRest, jpegBuffer, jpegFrames>>
relayVars == <<relays, go2rtcProcess, go2rtcIntentionalKill, isQuitting, go2rtcWatchdogTimer,
               go2rtcRestartTimer, go2rtcSettleTimer, go2rtcConfig>>
tunnelVars == <<tunnels, tunnelProcess, tunnelRestartTimer, tunnelTimers, tunnelRestartAttempts,
                tunnelUrl>>
apiVars == <<apiConnected, offlineEmits>>
errVars == <<clock, mqttErrorThrottle, errorLog>>
viewVars == <<viewers>>
auxVars == <<cmdVars, jpegVars, relayVars, tunnelVars, apiVars, errVars, viewVars>>
vars == <<connVars, camVars, histVars, mergeVars, tempVars, auxVars>>

ClientsOf(s) == {c \in clients : c.serial = s}
TimersOf(s) == {t \in timers : t.serial = s}

\* device sessions: clients that are connecting or connected
Sessions(s) == {c \in ClientsOf(s) : c.st \in {"connecting", "connected"}}

FreeClientId(s) == CHOOSE i \in 1..(Cardinality(ClientsOf(s)) + 1) :
    /\ i \notin {c.id : c \in ClientsOf(s)}
    /\ \A j \in 1..(i - 1) : j \in {c.id : c \in ClientsOf(s)}

FreeTimerId(s) == CHOOSE i \in 1..(Cardinality(TimersOf(s)) + 1) :
    /\ i \notin {t.id : t \in TimersOf(s)}
    /\ \A j \in 1..(i - 1) : j \in {t.id : t \in TimersOf(s)}

\* the state after startMjpegServer(); startGo2rtc(); connectToApi(apiKey)
\* a go2rtc process: by = "start" when startGo2rtc spawned it (it has the
\* 'close' handler), "config" when startGo2rtcWithConfig did (it has none)
startedRelay(id) == [id |-> id, by |-> "start", st |-> "running", config |-> {}]

configRelay(id, streams) == [id |-> id, by |-> "config", st |-> "running", config |-> streams]

\* the streamData object of startJpegStream; lastFrame stands for lastFrameTime > 0,
\* frame is streamData.lastFrame, empty when it is null
NewStream == [socket |-> 0, lastFrame |-> FALSE, receivedData |-> FALSE, frame |-> <<>>,
              reconnectAttempts |-> 0]

Init ==
    /\ deviceModel \in [Serials -> Models]
    /\ clients = {}
    /\ mqttClients = [s \in Serials |-> 0]
    /\ printers = [s \in Serials |-> NoPrinter]
    /\ printerDataCache = [s \in Serials |-> NoDescriptor]
    /\ printerReconnectTimers = [s \in Serials |-> 0]
    /\ timers = {}
    /\ reconnectAttempts = [s \in Serials |-> 0]
    /\ losses = [s \in Serials |-> 0]
    /\ cameraUrls = [s \in Serials |-> NoUrl]
    /\ cameraStreams = {}
    /\ jpegStreams = {}
    /\ streamData = [s \in Serials |-> NewStream]
    /\ camSockets = {}
    /\ camTimers = [s \in Serials |-> [cur |-> 0, old |-> 0]]
    /\ pendingStreams = <<>>
    /\ go2rtcReady = FALSE
    /\ go2rtcReadyTimer = TRUE
    /\ requests = {}
    /\ relays = {startedRelay(1)}
    /\ go2rtcProcess = 1
    /\ go2rtcIntentionalKill = FALSE
    /\ isQuitting = FALSE
    /\ go2rtcWatchdogTimer = FALSE
    /\ go2rtcRestartTimer = FALSE
    /\ go2rtcSettleTimer = FALSE
    /\ go2rtcConfig = {}
    /\ tunnels = {}
    /\ tunnelProcess = 0
    /\ tunnelRestartTimer = FALSE
    /\ tunnelTimers = 0
    /\ tunnelRestartAttempts = 0
    /\ tunnelUrl = NoTunnelUrl
    /\ apiConnected = TRUE
    /\ offlineEmits = [s \in Serials |-> 0]
    /\ announced = {}
    /\ removedWithTimer = {}
    /\ prevEntry = NoPrinter
    /\ lastReport = EmptyPrint
    /\ nrep = 0
    /\ tempIn = [current |-> 0, target |-> 0]
    /\ tempPhase = "input"
    /\ decoded = [current |-> 0, target |-> 0]
    /\ outbox = <<>>
    /\ pushallTimers = {}
    /\ commands = <<>>
    /\ jpegStream = <<>>
    /\ jpegRest = <<>>
    /\ jpegBuffer = <<>>
    /\ jpegFrames = <<>>
    /\ clock = 0
    /\ mqttErrorThrottle = [s \in Serials |-> NoLog]
    /\ errorLog = [s \in Serials |-> <<>>]
    /\ viewers = {}

\* ------------------------------------------------------------------------
\* connectPrinter, for every descriptor of the function list (serial -> model)
\* that passes the guard on mqttClients; recorded and pending are the timer
\* map and the pending timers at the time of the call
\* ------------------------------------------------------------------------
connectPrinter(list, recorded, pending) ==
    LET opening == {s \in DOMAIN list : mqttClients[s] = 0}
    IN /\ printerDataCache' = [s \in Serials |->
              IF s \in opening THEN list[s] ELSE printerDataCache[s]]
       /\ timers' = {t \in pending :
              ~(t.serial \in opening /\ t.id = recorded[t.serial])}
       /\ printerReconnectTimers' = [s \in Serials |->
              IF s \in opening THEN 0 ELSE recorded[s]]
       /\ clients' = clients \cup
              {[id |-> FreeClientId(s), serial |-> s, printer |-> list[s],
                st |-> "connecting"] : s \in opening}

\* the rosters the control plane sends: descriptors of some of its printers
Rosters == {[s \in D |-> deviceModel[s]] : D \in (SUBSET Serials) \ {{}}}

\* apiSocket 'printers:list'
PrintersList ==
    \E list \in Rosters :
        /\ apiConnected
        /\ connectPrinter(list, printerReconnectTimers, timers)
        /\ announced' = announced \cup DOMAIN list
        /\ removedWithTimer' = removedWithTimer \ DOMAIN list
        /\ UNCHANGED <<deviceModel, mqttClients, printers, reconnectAttempts, losses,
                       camVars, mergeVars, tempVars, auxVars>>

\* apiSocket 'printer:add'
PrinterAdd ==
    \E s \in Serials :
        /\ apiConnected
        /\ connectPrinter([x \in {s} |-> deviceModel[s]], printerReconnectTimers, timers)
        /\ announced' = announced \cup {s}
        /\ removedWithTimer' = removedWithTimer \ {s}
        /\ UNCHANGED <<deviceModel, mqttClients, printers, reconnectAttempts, losses,
                       camVars, mergeVars, tempVars, auxVars>>

\* apiSocket 'printer:add' for a printer whose descriptor the control plane has changed
PrinterReannounce ==
    \E s \in announced, m \in Models :
        /\ apiConnected
        /\ m # deviceModel[s]
        /\ deviceModel' = [deviceModel EXCEPT ![s] = m]
        /\ connectPrinter([x \in {s} |-> m], printerReconnectTimers, timers)
        /\ removedWithTimer' = removedWithTimer \ {s}
        /\ UNCHANGED <<announced, mqttClients, printers, reconnectAttempts, losses,
                       camVars, mergeVars, tempVars, auxVars>>

\* socket.destroy(): the socket emits 'close' later
destroy(socks, id) == {IF k.id = id THEN [k EXCEPT !.st = "destroyed"] ELSE k : k \in socks}

\* stopJpegStream for the serials of S: the socket of the record is destroyed and the
\* record deleted; sockets and timers created for it keep the deleted record (orphan)
stopJpegStream(S) ==
    LET D == S \cap jpegStreams
    IN /\ jpegStreams' = jpegStreams \ D
       /\ camSockets' = {IF k.serial \in D /\ ~k.orphan
                         THEN [k EXCEPT !.orphan = TRUE,
                                        !.st = IF k.id = streamData[k.serial].socket
                                               THEN "destroyed" ELSE @]
                         ELSE k : k \in camSockets}
       /\ camTimers' = [s \in Serials |->
                          IF s \in D THEN [cur |-> 0, old |-> camTimers[s].old + camTimers[s].cur]
                          ELSE camTimers[s]]
       /\ viewers' = {IF v.serial \in D /\ v.st = "attached"
                      THEN [v EXCEPT !.st = "ended"] ELSE v : v \in viewers}

\* apiSocket 'printer:remove'
PrinterRemove ==
    \E s \in Serials :
        /\ apiConnected
        /\ IF mqttClients[s] # 0
           THEN /\ clients' = {IF c.serial = s /\ c.id = mqttClients[s]
                               THEN [c EXCEPT !.st = "ending"] ELSE c : c \in clients}
                /\ mqttClients' = [mqttClients EXCEPT ![s] = 0]
                /\ printers' = [printers EXCEPT ![s] = NoPrinter]
                /\ cameraUrls' = [cameraUrls EXCEPT ![s] = NoUrl]
                /\ cameraStreams' = cameraStreams \ {s}
                /\ stopJpegStream({s})
           ELSE UNCHANGED <<clients, mqttClients, printers, cameraUrls,
                            cameraStreams, jpegStreams, camSockets, camTimers, viewers>>
        /\ announced' = announced \ {s}
        /\ removedWithTimer' = IF TimersOf(s) # {} THEN removedWithTimer \cup {s}
                               ELSE removedWithTimer
        /\ UNCHANGED <<deviceModel, printerDataCache, printerReconnectTimers, timers,
                       reconnectAttempts, losses, pendingStreams, go2rtcReady,
                       go2rtcReadyTimer, requests, streamData,
                       mergeVars, tempVars, cmdVars, jpegVars, relayVars,
                       tunnelVars, apiVars, errVars>>

\* ------------------------------------------------------------------------
\* Camera registration
\* ------------------------------------------------------------------------
LocalUrl == "local"

\* config.tunnelUrl || ('http://' + localIp + ':' + MJPEG_PORT): a camera URL is
\* represented by the base it is built on
baseUrl(url) == IF url # NoTunnelUrl THEN url ELSE LocalUrl

CamState == [cameraUrls |-> cameraUrls, cameraStreams |-> cameraStreams,
             jpegStreams |-> jpegStreams, pendingStreams |-> pendingStreams,
             requests |-> requests, tunnelUrl |-> tunnelUrl,
             streamData |-> streamData, camSockets |-> camSockets]

FreeSockId(socks) == CHOOSE i \in 1..(Cardinality(socks) + 1) :
    /\ i \notin {k.id : k \in socks}
    /\ \A j \in 1..(i - 1) : j \in {k.id : k \in socks}

\* connectJpegStream: a new TLS socket, kept in streamData.socket
connectJpegStream(cam, s) ==
    LET id == FreeSockId(cam.camSockets)
    IN [cam EXCEPT !.camSockets = @ \cup {[id |-> id, serial |-> s, st |-> "connecting", orphan |-> FALSE]},
                   !.streamData[s].socket = id,
                   !.streamData[s].receivedData = FALSE]

\* startJpegStream: one stream record per serial, URL set when it is created
startJpegStream(cam, s) ==
    IF s \in cam.jpegStreams THEN cam
    ELSE connectJpegStream([cam EXCEPT !.jpegStreams = @ \cup {s},
                                       !.streamData[s] = NewStream,
                                       !.cameraUrls[s] = baseUrl(cam.tunnelUrl)], s)


\* addCameraStream with go2rtcReady = ready
addCameraStream(cam, s, model, ready) ==
    IF isA1P1Model(model) THEN startJpegStream(cam, s)
    ELSE IF ~ready
    THEN [cam EXCEPT !.pendingStreams = Append(@, [serial |-> s, model |-> model])]
    ELSE [cam EXCEPT !.cameraStreams = @ \cup {s}, !.cameraUrls[s] = baseUrl(cam.tunnelUrl),
                     !.requests = @ \cup {s}]

\* pendingStreams.forEach(s => addCameraStream(...)) with go2rtcReady = true
RECURSIVE flushPending(_, _)
flushPending(cam, queue) ==
    IF queue = <<>> THEN cam
    ELSE flushPending(addCameraStream(cam, Head(queue).serial, Head(queue).model, TRUE),
                      Tail(queue))

SetCam(cam) ==
    /\ cameraUrls' = cam.cameraUrls
    /\ cameraStreams' = cam.cameraStreams
    /\ jpegStreams' = cam.jpegStreams
    /\ pendingStreams' = cam.pendingStreams
    /\ requests' = cam.requests
    /\ streamData' = cam.streamData
    /\ camSockets' = cam.camSockets

FreeTunnelId == CHOOSE i \in 1..(Cardinality(tunnels) + 1) :
    /\ i \notin {p.id : p \in tunnels}
    /\ \A j \in 1..(i - 1) : j \in {p.id : p \in tunnels}

\* startTunnel: spawn cloudflared and keep its handle
startTunnel ==
    /\ tunnels' = tunnels \cup {[id |-> FreeTunnelId, st |-> "running"]}
    /\ tunnelProcess' = FreeTunnelId

\* the readiness timer of startGo2rtc
Go2rtcReady ==
    /\ go2rtcReadyTimer
    /\ go2rtcReadyTimer' = FALSE
    /\ go2rtcReady' = TRUE
    /\ SetCam([flushPending(CamState, pendingStreams) EXCEPT !.pendingStreams = <<>>])
    /\ startTunnel
    /\ UNCHANGED <<tunnelRestartTimer, tunnelTimers, tunnelRestartAttempts, tunnelUrl,
                   camTimers, connVars, histVars, mergeVars, tempVars, cmdVars, jpegVars, relayVars,
                   apiVars, errVars, viewVars>>

\* ------------------------------------------------------------------------
\* MQTT client events
\* ------------------------------------------------------------------------
\* client 'connect'
ClientConnect ==
    \E c \in clients :
        /\ c.st = "connecting"
        /\ clients' = (clients \ {c}) \cup {[c EXCEPT !.st = "connected"]}
        /\ mqttClients' = [mqttClients EXCEPT ![c.serial] = c.id]
        /\ printers' = [printers EXCEPT ![c.serial] = ConnectEntry(c.printer)]
        /\ reconnectAttempts' = [reconnectAttempts EXCEPT ![c.serial] = 0]
        /\ losses' = [losses EXCEPT ![c.serial] = 0]
        /\ SetCam(addCameraStream(CamState, c.serial, c.printer, go2rtcReady))
        /\ mqttErrorThrottle' = [mqttErrorThrottle EXCEPT ![c.serial] = NoLog]
        /\ UNCHANGED <<deviceModel, printerDataCache, printerReconnectTimers, timers,
                       go2rtcReady, go2rtcReadyTimer, camTimers, histVars, mergeVars,
                       tempVars, cmdVars, jpegVars, relayVars, tunnelVars, apiVars,
                       clock, errorLog, viewVars>>

\* reports used by the connection specification
ConnReports ==
    {[EmptyPrint EXCEPT !.gcode_state = "RUNNING", !.mc_percent = 50],
     [EmptyPrint EXCEPT !.gcode_state = "FINISH"]}

\* client 'message': the merged entry is stored in the registry
message(c, r) ==
    /\ c.st = "connected"
    /\ printers' = [printers EXCEPT ![c.serial] = mergeReport(printers[c.serial], r)]
    /\ UNCHANGED <<deviceModel, clients, mqttClients, printerDataCache,
                   printerReconnectTimers, timers, reconnectAttempts, losses,
                   camVars, histVars, tempVars, auxVars>>

ClientMessage ==
    \E c \in clients, r \in ConnReports :
        /\ message(c, r)
        /\ UNCHANGED mergeVars

\* a scheduleReconnect that gives up after two attempts
scheduleReconnectGivesUp(s) ==
    IF printerDataCache[s] = NoDescriptor \/ mqttClients'[s] # 0
       \/ reconnectAttempts[s] >= 2
    THEN UNCHANGED <<reconnectAttempts, timers, printerReconnectTimers>>
    ELSE LET attempts == reconnectAttempts[s]
             timer == [id |-> FreeTimerId(s), serial |-> s, attempts |-> attempts,
                       delay |-> reconnectDelay(attempts), cached |-> printerDataCache[s]]
         IN /\ reconnectAttempts' = [reconnectAttempts EXCEPT ![s] = attempts + 1]
            /\ timers' = timers \cup {timer}
            /\ printerReconnectTimers' = [printerReconnectTimers EXCEPT ![s] = timer.id]

\* scheduleReconnect, called by 'close' after mqttClients.delete
scheduleReconnect(s) ==
    IF printerDataCache[s] = NoDescriptor \/ mqttClients'[s] # 0
    THEN UNCHANGED <<reconnectAttempts, timers, printerReconnectTimers>>
    ELSE LET attempts == reconnectAttempts[s]
             timer == [id |-> FreeTimerId(s), serial |-> s, attempts |-> attempts,
                       delay |-> reconnectDelay(attempts), cached |-> printerDataCache[s]]
         IN /\ reconnectAttempts' = [reconnectAttempts EXCEPT ![s] = attempts + 1]
            /\ timers' = timers \cup {timer}
            /\ printerReconnectTimers' = [printerReconnectTimers EXCEPT ![s] = timer.id]

\* a 'close' that leaves the registry entry online
closeKeepsOnline(c) ==
    /\ clients' = clients \ {c}
    /\ mqttClients' = [mqttClients EXCEPT ![c.serial] = 0]
    /\ printers' = printers
    /\ offlineEmits' = IF printers[c.serial].present /\ apiConnected
                       THEN [offlineEmits EXCEPT ![c.serial] = 1 - @]
                       ELSE offlineEmits
    /\ scheduleReconnect(c.serial)
    /\ losses' = [losses EXCEPT ![c.serial] = @ + 1]
    /\ UNCHANGED <<deviceModel, printerDataCache, camVars, histVars, mergeVars,
                   tempVars, apiConnected, cmdVars, jpegVars, relayVars, tunnelVars, errVars,
                   viewVars>>

\* client 'close' of the client c
close(c) ==
    /\ clients' = clients \ {c}
    /\ mqttClients' = [mqttClients EXCEPT ![c.serial] = 0]
    /\ printers' = IF printers[c.serial].present
                   THEN [printers EXCEPT ![c.serial].online = FALSE]
                   ELSE printers
    /\ offlineEmits' = IF printers[c.serial].present /\ apiConnected
                       THEN [offlineEmits EXCEPT ![c.serial] = 1 - @]
                       ELSE offlineEmits
    /\ scheduleReconnect(c.serial)
    /\ losses' = [losses EXCEPT ![c.serial] = @ + 1]
    /\ UNCHANGED <<deviceModel, printerDataCache, camVars, histVars, mergeVars,
                   tempVars, apiConnected, cmdVars, jpegVars, relayVars, tunnelVars, errVars,
                   viewVars>>

\* 'close' of a client that is connecting (failed attempt) or connected (loss)
ClientClose == \E c \in clients : c.st # "ending" /\ close(c)

\* 'close' of a client after client.end()
ClientEnded == \E c \in clients : c.st = "ending" /\ close(c)

\* the setTimeout callback of scheduleReconnect
TimerFire ==
    \E t \in timers :
        /\ IF mqttClients[t.serial] = 0
           THEN connectPrinter([x \in {t.serial} |-> t.cached],
                               [printerReconnectTimers EXCEPT ![t.serial] = 0],
                               timers \ {t})
           ELSE /\ timers' = timers \ {t}
                /\ printerReconnectTimers' = [printerReconnectTimers EXCEPT ![t.serial] = 0]
                /\ UNCHANGED <<clients, printerDataCache>>
        /\ UNCHANGED <<deviceModel, mqttClients, printers, reconnectAttempts, losses,
                       camVars, histVars, mergeVars, tempVars, auxVars>>

\* The bounds of the model, on the state an action leads to
Bounded(maxAttempts) ==
    /\ \A s \in Serials :
           /\ Cardinality(ClientsOf(s)) <= MaxClients
           /\ Cardinality(TimersOf(s)) <= MaxTimers
           /\ reconnectAttempts[s] <= maxAttempts
    /\ Len(pendingStreams) <= MaxPending
    /\ Cardinality(camSockets) <= MaxSockets

InBounds == Bounded(MaxAttempts)

Next ==
    \/ PrintersList /\ InBounds'
    \/ PrinterAdd /\ InBounds'
    \/ PrinterRemove /\ InBounds'
    \/ ClientConnect /\ InBounds'
    \/ ClientMessage /\ InBounds'
    \/ ClientClose /\ InBounds'
    \/ ClientEnded /\ InBounds'
    \/ TimerFire /\ InBounds'
    \/ Go2rtcReady /\ InBounds'

\* The connection manager, the registry and the camera registration
Spec == Init /\ [][Next]_vars

\* Timers set by setTimeout fire, and a client ended by client.end() emits 'close'
FairSpec ==
    /\ Spec
    /\ WF_vars(TimerFire /\ InBounds')
    /\ WF_vars(ClientEnded /\ InBounds')

\* ------------------------------------------------------------------------
\* Backoff specification: one session per serial that connects, fails and
\* retries, with a larger cap on the attempt counter
\* ------------------------------------------------------------------------
InBackoffBounds ==
    /\ Bounded(MaxBackoff)
    /\ \A s \in Serials : Cardinality(ClientsOf(s)) <= 1

NextBackoff ==
    \/ PrinterAdd /\ InBackoffBounds'
    \/ ClientConnect /\ InBackoffBounds'
    \/ ClientClose /\ InBackoffBounds'
    \/ TimerFire /\ InBackoffBounds'

SpecBackoff == Init /\ [][NextBackoff]_vars

\* ------------------------------------------------------------------------
\* Merge specification: one connected session receives up to MaxReports
\* reports drawn from Reports
\* ------------------------------------------------------------------------
MergeSerial == CHOOSE s \in Serials : TRUE

InMergeBounds ==
    /\ Bounded(MaxAttempts)
    /\ Cardinality(clients) <= 1

InitMerge == Init /\ deviceModel[MergeSerial] \in {"X1C", "H2D"}

\* client 'message' with the history of the merge recorded
MergeStep ==
    \E c \in clients, r \in Reports :
        /\ nrep < MaxReports
        /\ message(c, r)
        /\ prevEntry' = printers[c.serial]
        /\ lastReport' = r
        /\ nrep' = nrep + 1

NextMerge ==
    \/ PrinterAdd /\ InMergeBounds'
    \/ ClientConnect /\ InMergeBounds'
    \/ MergeStep

SpecMerge == InitMerge /\ [][NextMerge]_vars

\* ------------------------------------------------------------------------
\* Packed-temperature specification: decodeTemp applied to encoded pairs
\* ------------------------------------------------------------------------
TempSamples == {0, 1, 150, 225, 255, 256, 32767, 32768, 40000, 65535}

InitTemp ==
    /\ Init
    /\ deviceModel = [s \in Serials |-> "H2D"]

\* a device reports the pair (current, target) as one packed integer
PackTemp ==
    \E current \in TempSamples, target \in TempSamples :
        /\ tempPhase = "input"
        /\ tempIn' = [current |-> current, target |-> target]
        /\ tempPhase' = "packed"
        /\ UNCHANGED <<decoded, connVars, camVars, histVars, mergeVars, auxVars>>

DecodeTemp ==
    /\ tempPhase = "packed"
    /\ decoded' = decodeTemp(<<encodeTemp(tempIn.current, tempIn.target)>>)
    /\ tempPhase' = "decoded"
    /\ UNCHANGED <<tempIn, connVars, camVars, histVars, mergeVars, auxVars>>

NextTemp == PackTemp \/ DecodeTemp

SpecTemp == InitTemp /\ [][NextTemp]_vars

\* ------------------------------------------------------------------------
\* Command translation: executeCommand
\* ------------------------------------------------------------------------
NoArg == "-"

\* the commands of 'printer:command' and 'send-command'; "reboot" is a kind
\* executeCommand does not know, UndefStr a command object without a type
Cmds ==
    {[type |-> t, on |-> o, calibrationType |-> NoArg,
      trayInfoIdx |-> NoArg, trayType |-> NoArg] :
         t \in {"light", "workLight"}, o \in BOOLEAN}
    \cup {[type |-> "calibration", on |-> FALSE, calibrationType |-> k,
           trayInfoIdx |-> NoArg, trayType |-> NoArg] :
              k \in {"home", "bed_level", "z_offset", UndefStr}}
    \cup {[type |-> t, on |-> FALSE, calibrationType |-> NoArg,
           trayInfoIdx |-> NoArg, trayType |-> NoArg] :
              t \in {"pause", "home", "move", "reboot", UndefStr}}
    \cup {[type |-> "amsFilamentSetting", on |-> FALSE, calibrationType |-> NoArg,
           trayInfoIdx |-> "", trayType |-> t] : t \in {"PETG", "WOOD", "constructor"}}
    \cup {[type |-> "amsFilamentSetting", on |-> FALSE, calibrationType |-> NoArg,
           trayInfoIdx |-> "GFA00", trayType |-> "PETG"]}

\* a led mode that ignores the command
ledModeAlwaysOn(cmd) == "on"

\* cmd.on ? 'on' : 'off'
ledMode(cmd) == IF cmd.on THEN "on" ELSE "off"

ledctrl(node, mode) == [command |-> "ledctrl", arg |-> node, mode |-> mode]
gcodeLine(param) == [command |-> "gcode_line", arg |-> param, mode |-> NoArg]

\* a calibration that homes when it does not know the calibration type
calibrationPublishesDefaultsHome(cmd) ==
    IF cmd.calibrationType = "bed_level" THEN <<gcodeLine("G29")>>
    ELSE <<gcodeLine("G28")>>

\* case 'calibration'
calibrationPublishes(cmd) ==
    IF cmd.calibrationType = "home" THEN <<gcodeLine("G28")>>
    ELSE IF cmd.calibrationType = "bed_level" THEN <<gcodeLine("G29")>>
    ELSE <<>>

\* a jog that does not return to absolute positioning
movePublishesStaysRelative == <<gcodeLine("G91"), gcodeLine("G0 X10 F3000")>>

\* case 'move' and the final publish, for axis X and distance 10
movePublishes == <<gcodeLine("G91"), gcodeLine("G0 X10 F3000"), gcodeLine("G90")>>

\* const filamentCodeMap: the material code of a material type
filamentCodeMap ==
    [t \in {"PLA", "PLA-S", "PLA-CF", "PETG", "PETG-CF", "ABS", "ASA", "TPU", "PA",
            "PA-CF", "PC", "PVA", "HIPS"} |->
        CASE t = "PLA" -> "GFL99" [] t = "PLA-S" -> "GFL96" [] t = "PLA-CF" -> "GFL98"
          [] t = "PETG" -> "GFG99" [] t = "PETG-CF" -> "GFG98"
          [] t = "ABS" -> "GFB99" [] t = "ASA" -> "GFB98"
          [] t = "TPU" -> "GFU99" [] t = "PA" -> "GFN99" [] t = "PA-CF" -> "GFN98"
          [] t = "PC" -> "GFC99" [] t = "PVA" -> "GFS99" [] t = "HIPS" -> "GFS98"]

\* filamentCodeMap is an object literal: a property it does not define itself is
\* looked up in Object.prototype, whose members are functions, not strings
ObjectPrototype ==
    {"constructor", "toString", "valueOf", "hasOwnProperty", "isPrototypeOf",
     "propertyIsEnumerable", "toLocaleString"}

AFunction == "[Function]"

\* cmd.trayInfoIdx || filamentCodeMap[cmd.trayType] || 'GFL99'; an empty string is
\* falsy like a missing field
filamentCode(cmd) ==
    IF cmd.trayInfoIdx \notin {"", UndefStr} THEN cmd.trayInfoIdx
    ELSE IF cmd.trayType \in DOMAIN filamentCodeMap THEN filamentCodeMap[cmd.trayType]
    ELSE IF cmd.trayType \in ObjectPrototype THEN AFunction
    ELSE "GFL99"

\* tray_info_idx in JSON.stringify(payload): a member whose value is a function is
\* left out of the text
trayInfoIdxSent(cmd) ==
    IF filamentCode(cmd) = AFunction THEN UndefStr ELSE filamentCode(cmd)

\* the payloads executeCommand publishes on the client it found, in order;
\* model is the model of the registry entry, "" when there is none
publishes(model, cmd) ==
    CASE cmd.type = "pause" -> <<[command |-> "pause", arg |-> NoArg, mode |-> NoArg]>>
      [] cmd.type = "light" -> <<ledctrl("chamber_light", ledMode(cmd))>>
      [] cmd.type = "workLight" ->
            IF model = "A1"
            THEN <<ledctrl("chamber_light", ledMode(cmd)),
                   ledctrl("work_light", ledMode(cmd))>>
            ELSE IF model \in {"H2D", "X1C"}
            THEN <<ledctrl("chamber_light2", ledMode(cmd))>>
            ELSE <<ledctrl("work_light", ledMode(cmd))>>
      [] cmd.type = "home" -> <<gcodeLine("G28")>>
      [] cmd.type = "calibration" -> calibrationPublishes(cmd)
      [] cmd.type = "move" -> movePublishes
      [] cmd.type = "amsFilamentSetting" ->
            <<[command |-> "ams_filament_setting", arg |-> trayInfoIdxSent(cmd),
               mode |-> NoArg]>>
      [] OTHER -> <<>>

\* an executeCommand that publishes on the serial's topic without a client
executeCommandNoGuard(s, cmd, acked) ==
    LET n == Len(commands) + 1
        client == mqttClients[s]
        model == IF printers[s].present /\ printers[s].model # UndefStr
                 THEN printers[s].model ELSE ""
        msgs == publishes(model, cmd)
    IN /\ outbox' = outbox \o
              [i \in 1..Len(msgs) |->
                   [serial |-> s, client |-> client, cmd |-> n, msg |-> msgs[i]]]
       /\ pushallTimers' =
              IF cmd.type = "amsFilamentSetting" /\ acked
              THEN pushallTimers \cup {[serial |-> s, client |-> client, cmd |-> n]}
              ELSE pushallTimers
       /\ commands' = Append(commands,
              [serial |-> s, cmd |-> cmd, client |-> client, model |-> model,
               acked |-> acked])

\* executeCommand(s, cmd); acked tells whether the publish callback of an
\* AMS filament setting reports success
executeCommand(s, cmd, acked) ==
    LET n == Len(commands) + 1
        client == mqttClients[s]
        model == IF printers[s].present /\ printers[s].model # UndefStr
                 THEN printers[s].model ELSE ""
        msgs == IF client = 0 THEN <<>> ELSE publishes(model, cmd)
    IN /\ outbox' = outbox \o
              [i \in 1..Len(msgs) |->
                   [serial |-> s, client |-> client, cmd |-> n, msg |-> msgs[i]]]
       /\ pushallTimers' =
              IF client # 0 /\ cmd.type = "amsFilamentSetting" /\ acked
              THEN pushallTimers \cup {[serial |-> s, client |-> client, cmd |-> n]}
              ELSE pushallTimers
       /\ commands' = Append(commands,
              [serial |-> s, cmd |-> cmd, client |-> client, model |-> model,
               acked |-> acked])

\* apiSocket 'printer:command' and ipcMain 'send-command'
PrinterCommand ==
    \E s \in Serials, cmd \in Cmds, acked \in BOOLEAN :
        /\ Len(commands) < MaxCommands
        /\ cmd.type # "amsFilamentSetting" => acked
        /\ executeCommand(s, cmd, acked)
        /\ UNCHANGED <<connVars, camVars, histVars, mergeVars, tempVars, jpegVars,
                       relayVars, tunnelVars, apiVars, errVars, viewVars>>

\* the 2 s timer after an acknowledged AMS filament setting: pushall on the
\* same client, which sends it only while it is connected
PushallFire ==
    \E t \in pushallTimers :
        /\ pushallTimers' = pushallTimers \ {t}
        /\ outbox' =
              IF \E c \in clients : c.serial = t.serial /\ c.id = t.client
                                    /\ c.st = "connected"
              THEN Append(outbox, [serial |-> t.serial, client |-> t.client,
                                   cmd |-> t.cmd,
                                   msg |-> [command |-> "pushall", arg |-> NoArg,
                                            mode |-> NoArg]])
              ELSE outbox
        /\ UNCHANGED <<commands, connVars, camVars, histVars, mergeVars, tempVars,
                       jpegVars, relayVars, tunnelVars, apiVars, errVars, viewVars>>

\* one client per serial and one retry
InCmdBounds ==
    /\ Bounded(1)
    /\ \A s \in Serials : Cardinality(ClientsOf(s)) <= 1

NextCmd ==
    \/ PrinterAdd /\ InCmdBounds'
    \/ PrinterRemove /\ InCmdBounds'
    \/ ClientConnect /\ InCmdBounds'
    \/ ClientClose /\ InCmdBounds'
    \/ ClientEnded /\ InCmdBounds'
    \/ TimerFire /\ InCmdBounds'
    \/ PrinterCommand
    \/ PushallFire

\* Sessions that come and go while commands arrive
SpecCmd == Init /\ [][NextCmd]_vars

\* ------------------------------------------------------------------------
\* JPEG frame extraction: the 'data' handler and processJpegBuffer
\* ------------------------------------------------------------------------
JPEG_START == <<255, 216>>
JPEG_END == <<255, 217>>

\* jpegData.length > 100
MinFrameLength == 100

\* buffer.indexOf(marker, from): 1-based index of the first occurrence at or
\* after the 1-based index from, 0 when there is none
indexOf(buffer, marker, from) ==
    LET hits == {i \in from..(Len(buffer) - 1) :
                     buffer[i] = marker[1] /\ buffer[i + 1] = marker[2]}
    IN IF hits = {} THEN 0 ELSE CHOOSE i \in hits : \A j \in hits : i <= j

\* buffer.slice(from), 1-based
sliceFrom(buffer, from) == SubSeq(buffer, from, Len(buffer))

\* the while loop of processJpegBuffer
RECURSIVE processJpegBuffer(_, _)
processJpegBuffer(buffer, frames) ==
    LET startIdx == indexOf(buffer, JPEG_START, 1)
    IN IF startIdx = 0 THEN [buffer |-> <<>>, frames |-> frames]
       ELSE LET trimmed == sliceFrom(buffer, startIdx)
                endIdx == indexOf(trimmed, JPEG_END, 3)
            IN IF endIdx = 0 THEN [buffer |-> trimmed, frames |-> frames]
               ELSE LET jpegData == SubSeq(trimmed, 1, endIdx + 1)
                        rest == sliceFrom(trimmed, endIdx + 2)
                    IN processJpegBuffer(rest,
                           IF Len(jpegData) > MinFrameLength
                           THEN Append(frames, jpegData) ELSE frames)

\* n bytes that belong to no marker
Filler(n) == [i \in 1..n |-> 0]

\* a frame with n bytes between its markers
Frame(n) == JPEG_START \o Filler(n) \o JPEG_END

\* a frame with another picture: n bytes of value 1 between its markers
NextFrame(n) == JPEG_START \o [i \in 1..n |-> 1] \o JPEG_END

\* leading bytes that hold no start marker; the last byte may be 0xFF
Noises == {<<>>, Filler(3), Filler(2) \o <<255>>}

\* frame bodies: 97 bytes make a frame of 101 bytes, 4 bytes one of 8
BodyLengths == {97, 4}

InitJpeg ==
    /\ Init
    /\ deviceModel = [s \in Serials |-> "A1"]

\* the camera sends <noise><frame><frame>
JpegSend ==
    \E noise \in Noises, n1 \in BodyLengths, n2 \in BodyLengths :
        /\ jpegStream = <<>>
        /\ jpegStream' = noise \o Frame(n1) \o NextFrame(n2)
        /\ jpegRest' = jpegStream'
        /\ UNCHANGED <<jpegBuffer, jpegFrames, cmdVars, relayVars, connVars, camVars,
                       histVars, mergeVars, tempVars, tunnelVars, apiVars, errVars, viewVars>>

\* socket 'data' with the next k bytes of the stream
\* a broadcast that does not look at the state of a viewer
broadcastToAll(vs, s, frames) ==
    {IF v.serial = s THEN [v EXCEPT !.got = @ \o frames] ELSE v : v \in vs}

\* streamData.clients.forEach(client => sendJpegFrame(client, jpegData)) for each of
\* frames: the viewers in the set of the record of s are the attached ones
broadcast(vs, s, frames) ==
    {IF v.serial = s /\ v.st = "attached" THEN [v EXCEPT !.got = @ \o frames] ELSE v :
         v \in vs}

JpegData ==
    \E sock \in camSockets, k \in 1..Len(jpegRest) :
        LET data == SubSeq(jpegRest, 1, k)
            done == processJpegBuffer(jpegBuffer \o data, jpegFrames)
            new == SubSeq(done.frames, Len(jpegFrames) + 1, Len(done.frames))
        IN /\ sock.st = "open" /\ ~sock.orphan
           /\ jpegRest' = sliceFrom(jpegRest, k + 1)
           /\ jpegBuffer' = done.buffer
           /\ jpegFrames' = done.frames
           /\ streamData' = [streamData EXCEPT
                  ![sock.serial].receivedData = TRUE,
                  ![sock.serial].lastFrame = @ \/ new # <<>>,
                  ![sock.serial].frame = IF new # <<>> THEN new[Len(new)] ELSE @]
           /\ viewers' = broadcast(viewers, sock.serial, new)
           /\ UNCHANGED <<jpegStream, cmdVars, relayVars, connVars, cameraUrls, cameraStreams,
                          jpegStreams, pendingStreams, go2rtcReady, go2rtcReadyTimer,
                          requests, camSockets, camTimers, histVars, mergeVars, tempVars,
                          tunnelVars, apiVars, errVars>>

\* GET /stream/:serial: 404 without a stream record; else the response joins the
\* clients of the record and is sent the last frame when there is one
ViewerAttach ==
    \E s \in Serials :
        LET id == Cardinality(viewers) + 1
            d == streamData[s]
        IN /\ id <= MaxViewers
           /\ viewers' = IF s \notin jpegStreams THEN viewers
                         ELSE viewers \cup
                                  {[id |-> id, serial |-> s, st |-> "attached",
                                    got |-> IF d.frame # <<>> THEN <<d.frame>> ELSE <<>>]}
           /\ UNCHANGED <<connVars, camVars, histVars, mergeVars, tempVars, cmdVars,
                          jpegVars, relayVars, tunnelVars, apiVars, errVars>>

\* req 'close' of a viewer: the response leaves the clients of its record; the
\* record of what it received is kept as history
ViewerClose ==
    \E v \in viewers :
        /\ v.st # "closed"
        /\ viewers' = (viewers \ {v}) \cup {[v EXCEPT !.st = "closed"]}
        /\ UNCHANGED <<connVars, camVars, histVars, mergeVars, tempVars, cmdVars,
                       jpegVars, relayVars, tunnelVars, apiVars, errVars>>

\* callback of tls.connect: the socket is connected
CamConnect ==
    \E k \in camSockets :
        /\ k.st = "connecting"
        /\ camSockets' = (camSockets \ {k}) \cup {[k EXCEPT !.st = "open"]}
        /\ streamData' = IF k.orphan THEN streamData
                         ELSE [streamData EXCEPT ![k.serial].reconnectAttempts = 0]
        /\ UNCHANGED <<connVars, cameraUrls, cameraStreams, jpegStreams, pendingStreams,
                       go2rtcReady, go2rtcReadyTimer, requests, camTimers, histVars,
                       mergeVars, tempVars, auxVars>>

\* a tick of the stream watchdog that finds the stream silent: frames came before and
\* none for 60 s, or no data at all 30 s after connecting
CamWatchdog ==
    \E s \in jpegStreams :
        LET d == streamData[s]
            cam == [CamState EXCEPT
                       !.camSockets = destroy(@, d.socket),
                       !.streamData[s] = [d EXCEPT !.socket = 0, !.receivedData = FALSE,
                                                   !.reconnectAttempts = 0]]
        IN /\ d.socket # 0
           /\ d.lastFrame \/ ~d.receivedData
           /\ SetCam(connectJpegStream(cam, s))
           /\ jpegBuffer' = <<>>
           /\ UNCHANGED <<go2rtcReady, go2rtcReadyTimer, camTimers, connVars, histVars,
                          mergeVars, tempVars, jpegStream, jpegRest, jpegFrames, cmdVars,
                          relayVars, tunnelVars, apiVars, errVars, viewVars>>

\* socket 'close'
CamSocketClose ==
    \E k \in camSockets :
        LET s == k.serial
        IN /\ camSockets' = camSockets \ {k}
           /\ streamData' = IF k.orphan THEN streamData
                            ELSE [streamData EXCEPT
                                     ![s].socket = 0,
                                     ![s].reconnectAttempts =
                                         IF s \in jpegStreams THEN @ + 1 ELSE @]
           /\ camTimers' = IF s \notin jpegStreams THEN camTimers
                           ELSE IF k.orphan THEN [camTimers EXCEPT ![s].old = @ + 1]
                           ELSE [camTimers EXCEPT ![s].cur = @ + 1]
           /\ UNCHANGED <<connVars, cameraUrls, cameraStreams, jpegStreams, pendingStreams,
                          go2rtcReady, go2rtcReadyTimer, requests, histVars, mergeVars,
                          tempVars, auxVars>>

\* the reconnect timer of the 'close' handler fires
CamReconnect ==
    \E s \in Serials, old \in BOOLEAN :
        /\ IF old THEN camTimers[s].old > 0 ELSE camTimers[s].cur > 0
        /\ camTimers' = IF old THEN [camTimers EXCEPT ![s].old = @ - 1]
                        ELSE [camTimers EXCEPT ![s].cur = @ - 1]
        /\ IF s \notin jpegStreams THEN UNCHANGED <<streamData, camSockets>>
           ELSE IF old
           THEN /\ camSockets' = camSockets \cup
                       {[id |-> FreeSockId(camSockets), serial |-> s, st |-> "connecting",
                         orphan |-> TRUE]}
                /\ UNCHANGED streamData
           ELSE LET cam == connectJpegStream(CamState, s)
                IN /\ camSockets' = cam.camSockets
                   /\ streamData' = cam.streamData
        /\ UNCHANGED <<connVars, cameraUrls, cameraStreams, jpegStreams, pendingStreams,
                       go2rtcReady, go2rtcReadyTimer, requests, histVars, mergeVars,
                       tempVars, auxVars>>

InJpegBounds ==
    /\ Bounded(0)
    /\ \A s \in Serials : Cardinality(ClientsOf(s)) <= 1

NextJpeg ==
    \/ PrinterAdd /\ InJpegBounds'
    \/ ClientConnect /\ InJpegBounds'
    \/ CamConnect
    \/ JpegSend
    \/ JpegData

InViewBounds ==
    /\ InJpegBounds
    /\ Len(jpegRest) \in {0, Len(jpegStream), 101, 8}

NextView ==
    \/ PrinterAdd /\ InViewBounds'
    \/ PrinterRemove /\ InViewBounds'
    \/ ClientConnect /\ InViewBounds'
    \/ CamConnect /\ InViewBounds'
    \/ JpegSend /\ InViewBounds'
    \/ JpegData /\ InViewBounds'
    \/ ViewerAttach
    \/ ViewerClose

\* One camera whose frames are served to MJPEG viewers that come and go
SpecView == InitJpeg /\ [][NextView]_vars

\* One JPEG socket that delivers a stream in chunks of any size
SpecJpeg == InitJpeg /\ [][NextJpeg]_vars

InCamBounds ==
    /\ InJpegBounds
    /\ Cardinality(camSockets) <= MaxSockets
    /\ \A s \in Serials : /\ camTimers[s].cur + camTimers[s].old <= MaxCamTimers
                          /\ streamData[s].reconnectAttempts <= MaxCamAttempts
    /\ jpegRest \in {<<>>, jpegStream}

NextCam ==
    \/ PrinterAdd /\ InCamBounds'
    \/ ClientConnect /\ InCamBounds'
    \/ CamConnect /\ InCamBounds'
    \/ JpegSend /\ InCamBounds'
    \/ JpegData /\ InCamBounds'
    \/ CamWatchdog /\ InCamBounds'
    \/ CamSocketClose /\ InCamBounds'
    \/ CamReconnect /\ InCamBounds'

\* One camera with its JPEG socket, the stream watchdog and the reconnect timers
SpecCam == InitJpeg /\ [][NextCam]_vars

\* ------------------------------------------------------------------------
\* go2rtc supervision: start, exit, watchdog restart, fallback restart, shutdown
\* ------------------------------------------------------------------------
FreeRelayId == CHOOSE i \in 1..(Cardinality(relays) + 1) :
    /\ i \notin {p.id : p \in relays}
    /\ \A j \in 1..(i - 1) : j \in {p.id : p \in relays}

\* go2rtcProcess.kill(): the process exits later
kill(ps, id) == {IF p.id = id THEN [p EXCEPT !.st = "killed"] ELSE p : p \in ps}

\* A go2rtc process exits, after a crash or a kill. A process spawned by
\* startGo2rtc has the 'close' handler; one spawned by startGo2rtcWithConfig
\* has no 'close' handler.
RelayExit ==
    \E p \in relays :
        /\ relays' = relays \ {p}
        /\ IF p.by = "start"
           THEN /\ go2rtcProcess' = 0
                /\ go2rtcReady' = FALSE
                /\ IF go2rtcIntentionalKill
                   THEN /\ go2rtcIntentionalKill' = FALSE
                        /\ UNCHANGED go2rtcWatchdogTimer
                   ELSE /\ go2rtcWatchdogTimer' = IF ~isQuitting THEN TRUE
                                                  ELSE go2rtcWatchdogTimer
                        /\ UNCHANGED go2rtcIntentionalKill
           ELSE UNCHANGED <<go2rtcProcess, go2rtcReady, go2rtcIntentionalKill,
                            go2rtcWatchdogTimer>>
        /\ UNCHANGED <<isQuitting, go2rtcRestartTimer, go2rtcSettleTimer, go2rtcConfig,
                       cameraUrls, cameraStreams, jpegStreams, sockVars, pendingStreams,
                       go2rtcReadyTimer, requests, cmdVars, jpegVars, connVars, histVars,
                       mergeVars, tempVars, tunnelVars, apiVars, errVars, viewVars>>

\* The watchdog timer fires: startGo2rtc. It was set 3 s after a 'close', so
\* the 2 s readiness timer of the process that closed has fired before it.
Go2rtcWatchdog ==
    /\ go2rtcWatchdogTimer
    /\ ~go2rtcReadyTimer
    /\ go2rtcWatchdogTimer' = FALSE
    /\ relays' = relays \cup {startedRelay(FreeRelayId)}
    /\ go2rtcProcess' = FreeRelayId
    /\ go2rtcReadyTimer' = TRUE
    /\ UNCHANGED <<go2rtcIntentionalKill, isQuitting, go2rtcRestartTimer, go2rtcSettleTimer,
                   go2rtcConfig, cameraUrls, cameraStreams, jpegStreams, sockVars, pendingStreams,
                   go2rtcReady, requests, cmdVars, jpegVars, connVars, histVars, mergeVars,
                   tempVars, tunnelVars, apiVars, errVars, viewVars>>

\* The response to a stream registration: status 200 comes from a running
\* go2rtc only; any other status and a transport error start the debounce timer
\* of the fallback restart.
RegistrationResponse ==
    \E s \in requests, ok \in BOOLEAN :
        /\ ok => \E p \in relays : p.st = "running"
        /\ requests' = requests \ {s}
        /\ go2rtcRestartTimer' = IF ok THEN go2rtcRestartTimer ELSE TRUE
        /\ UNCHANGED <<relays, go2rtcProcess, go2rtcIntentionalKill, isQuitting,
                       go2rtcWatchdogTimer, go2rtcSettleTimer, go2rtcConfig, cameraUrls,
                       cameraStreams, jpegStreams, sockVars, pendingStreams, go2rtcReady,
                       go2rtcReadyTimer, cmdVars, jpegVars, connVars, histVars, mergeVars,
                       tempVars, tunnelVars, apiVars, errVars, viewVars>>

\* the streams written to go2rtc.yaml by restartGo2rtcWithAllStreams
streamsConfig(streams) == streams

\* The debounce timer fires: restartGo2rtcWithAllStreams. It was set 2 s
\* after a response, so the 500 ms timer of an earlier restart has fired.
Go2rtcRestart ==
    /\ go2rtcRestartTimer
    /\ ~go2rtcSettleTimer
    /\ go2rtcRestartTimer' = FALSE
    /\ go2rtcConfig' = streamsConfig(cameraStreams)
    /\ go2rtcIntentionalKill' = TRUE
    /\ relays' = IF go2rtcProcess # 0 THEN kill(relays, go2rtcProcess) ELSE relays
    /\ go2rtcProcess' = 0
    /\ go2rtcSettleTimer' = TRUE
    /\ UNCHANGED <<isQuitting, go2rtcWatchdogTimer, camVars, cmdVars, jpegVars, connVars,
                   histVars, mergeVars, tempVars, tunnelVars, apiVars, errVars, viewVars>>

\* The 500 ms timer fires: startGo2rtcWithConfig, then the URLs of the
\* go2rtc streams are set again.
Go2rtcSettle ==
    /\ go2rtcSettleTimer
    /\ go2rtcSettleTimer' = FALSE
    /\ relays' = relays \cup {configRelay(FreeRelayId, go2rtcConfig)}
    /\ go2rtcProcess' = FreeRelayId
    /\ cameraUrls' = [s \in Serials |-> IF s \in cameraStreams THEN baseUrl(tunnelUrl)
                                        ELSE cameraUrls[s]]
    /\ UNCHANGED <<go2rtcIntentionalKill, isQuitting, go2rtcWatchdogTimer,
                   go2rtcRestartTimer, go2rtcConfig, cameraStreams, jpegStreams, sockVars,
                   pendingStreams, go2rtcReady, go2rtcReadyTimer, requests, cmdVars,
                   jpegVars, connVars, histVars, mergeVars, tempVars, tunnelVars, apiVars,
                   errVars, viewVars>>

\* the tunnel URLs cloudflared reports
TunnelUrls == {"t1", "t2"}

\* cloudflared prints its URL on stderr: the base address changes
TunnelUrl ==
    \E p \in tunnels, url \in TunnelUrls :
        /\ p.st = "running"
        /\ tunnelUrl' = url
        /\ tunnelRestartAttempts' = 0
        /\ cameraUrls' = [s \in Serials |-> IF printers[s].present THEN url
                                            ELSE cameraUrls[s]]
        /\ UNCHANGED <<tunnels, tunnelProcess, tunnelRestartTimer, tunnelTimers,
                       cameraStreams, jpegStreams, sockVars, pendingStreams, go2rtcReady,
                       go2rtcReadyTimer, requests, connVars, histVars, mergeVars, tempVars,
                       cmdVars, jpegVars, relayVars, apiVars, errVars, viewVars>>

\* tunnel 'close': a cloudflared process exits, after a crash or a kill
TunnelExit ==
    \E p \in tunnels :
        /\ tunnels' = tunnels \ {p}
        /\ tunnelProcess' = 0
        /\ tunnelRestartAttempts' = tunnelRestartAttempts + 1
        /\ tunnelTimers' = tunnelTimers + 1
        /\ tunnelRestartTimer' = TRUE
        /\ UNCHANGED <<tunnelUrl, camVars, connVars, histVars, mergeVars, tempVars, cmdVars,
                       jpegVars, relayVars, apiVars, errVars, viewVars>>

\* a tunnel restart timer fires
TunnelRestart ==
    /\ tunnelTimers > 0
    /\ tunnelTimers' = tunnelTimers - 1
    /\ tunnelRestartTimer' = FALSE
    /\ startTunnel
    /\ UNCHANGED <<tunnelRestartAttempts, tunnelUrl, camVars, connVars, histVars, mergeVars,
                   tempVars, cmdVars, jpegVars, relayVars, apiVars, errVars, viewVars>>

\* disconnectApi: every recorded client is ended, both maps are cleared
disconnectApi ==
    /\ clients' = {IF c.id = mqttClients[c.serial] THEN [c EXCEPT !.st = "ending"] ELSE c :
                   c \in clients}
    /\ mqttClients' = [s \in Serials |-> 0]
    /\ printers' = [s \in Serials |-> NoPrinter]

\* time passes
Tick ==
    /\ clock' = clock + 1
    /\ UNCHANGED <<mqttErrorThrottle, errorLog, connVars, camVars, histVars, mergeVars,
                   tempVars, cmdVars, jpegVars, relayVars, tunnelVars, apiVars, viewVars>>

\* client 'error': logged unless an error of the serial was logged in the last 60 s;
\* the client emits 'close' next
ClientError ==
    \E c \in clients :
        LET s == c.serial
            now == clock * TickMs
            lastLog == mqttErrorThrottle[s] * TickMs
            logs == mqttErrorThrottle[s] = NoLog \/ now - lastLog > ErrorThrottleMs
        IN /\ c.st \in {"connecting", "connected", "errored"}
           /\ clients' = (clients \ {c}) \cup {[c EXCEPT !.st = "errored"]}
           /\ mqttErrorThrottle' = IF logs THEN [mqttErrorThrottle EXCEPT ![s] = clock]
                                   ELSE mqttErrorThrottle
           /\ errorLog' = IF logs THEN [errorLog EXCEPT ![s] = Append(@, clock)]
                          ELSE errorLog
           /\ UNCHANGED <<clock, deviceModel, mqttClients, printers, printerDataCache,
                          printerReconnectTimers, timers, reconnectAttempts, losses,
                          camVars, histVars, mergeVars, tempVars, cmdVars, jpegVars,
                          relayVars, tunnelVars, apiVars, viewVars>>

InErrBounds ==
    /\ InBounds
    /\ clock <= MaxClock
    /\ \A s \in Serials : Len(errorLog[s]) <= MaxErrorLogs

NextErr ==
    \/ PrinterAdd /\ InErrBounds'
    \/ ClientConnect /\ InErrBounds'
    \/ ClientError /\ InErrBounds'
    \/ ClientClose /\ InErrBounds'
    \/ TimerFire /\ InErrBounds'
    \/ Tick /\ InErrBounds'

\* The connection manager with transport errors and a clock
SpecErr == Init /\ [][NextErr]_vars

\* apiSocket 'disconnect': the cloud channel is lost, socket.io reconnects by itself
ApiDisconnect ==
    /\ apiConnected
    /\ apiConnected' = FALSE
    /\ UNCHANGED <<offlineEmits, connVars, camVars, histVars, mergeVars, tempVars, cmdVars,
                   jpegVars, relayVars, tunnelVars, errVars, viewVars>>

\* apiSocket 'connect' after a reconnection
ApiConnect ==
    /\ ~apiConnected /\ ~isQuitting
    /\ apiConnected' = TRUE
    /\ UNCHANGED <<offlineEmits, connVars, camVars, histVars, mergeVars, tempVars, cmdVars,
                   jpegVars, relayVars, tunnelVars, errVars, viewVars>>

\* ipcMain 'disconnect': the operator leaves the control plane; what it had
\* announced is void from then on
OperatorDisconnect ==
    /\ ~isQuitting
    /\ apiConnected' = FALSE
    /\ disconnectApi
    /\ announced' = {}
    /\ UNCHANGED <<offlineEmits, deviceModel, printerDataCache, printerReconnectTimers,
                   timers, reconnectAttempts, losses, removedWithTimer, camVars,
                   mergeVars, tempVars, cmdVars, jpegVars, relayVars, tunnelVars, errVars,
                   viewVars>>

\* app 'window-all-closed' / shutdown()
Shutdown ==
    /\ ~isQuitting
    /\ isQuitting' = TRUE
    /\ timers' = {t \in timers : t.id # printerReconnectTimers[t.serial]}
    /\ printerReconnectTimers' = [s \in Serials |-> 0]
    /\ tunnelTimers' = IF tunnelRestartTimer THEN tunnelTimers - 1 ELSE tunnelTimers
    /\ tunnelRestartTimer' = FALSE
    /\ go2rtcWatchdogTimer' = FALSE
    /\ stopJpegStream(Serials)
    /\ relays' = IF go2rtcProcess # 0 THEN kill(relays, go2rtcProcess) ELSE relays
    /\ tunnels' = IF tunnelProcess # 0 THEN kill(tunnels, tunnelProcess) ELSE tunnels
    /\ apiConnected' = FALSE
    /\ disconnectApi
    /\ UNCHANGED <<go2rtcProcess, go2rtcIntentionalKill, go2rtcRestartTimer,
                   go2rtcSettleTimer, go2rtcConfig, tunnelProcess, tunnelRestartAttempts,
                   tunnelUrl, cameraUrls, cameraStreams, pendingStreams, go2rtcReady,
                   go2rtcReadyTimer, requests, deviceModel, printerDataCache,
                   reconnectAttempts, losses, cmdVars, jpegVars, histVars, mergeVars,
                   tempVars, offlineEmits, streamData, errVars>>

NextApi ==
    \/ PrintersList /\ InBounds'
    \/ PrinterAdd /\ InBounds'
    \/ PrinterRemove /\ InBounds'
    \/ ClientConnect /\ InBounds'
    \/ ClientClose /\ InBounds'
    \/ ClientEnded /\ InBounds'
    \/ TimerFire /\ InBounds'
    \/ ApiDisconnect
    \/ ApiConnect

\* The connection manager with a cloud channel that drops and comes back
SpecApi == Init /\ [][NextApi]_vars

NextOperator ==
    \/ PrintersList /\ InBounds'
    \/ PrinterAdd /\ InBounds'
    \/ ClientConnect /\ InBounds'
    \/ ClientClose /\ InBounds'
    \/ ClientEnded /\ InBounds'
    \/ TimerFire /\ InBounds'
    \/ OperatorDisconnect
    \/ ApiConnect

\* The connection manager with an operator who leaves the control plane and joins again
SpecOperator == Init /\ [][NextOperator]_vars

NextAnnounce ==
    \/ PrinterAdd /\ InBounds'
    \/ PrinterReannounce /\ InBounds'
    \/ ClientConnect /\ InBounds'
    \/ ClientClose /\ InBounds'
    \/ TimerFire /\ InBounds'
    \/ Go2rtcReady /\ InBounds'

\* The connection manager with a control plane that changes descriptors
SpecAnnounce == Init /\ [][NextAnnounce]_vars

InTunnelBounds ==
    /\ Bounded(1)
    /\ \A s \in Serials : Cardinality(ClientsOf(s)) <= 1
    /\ Cardinality(tunnels) <= MaxTunnels
    /\ tunnelTimers <= MaxTunnelTimers
    /\ tunnelRestartAttempts <= MaxTunnelAttempts

NextTunnel ==
    \/ PrinterAdd /\ InTunnelBounds'
    \/ PrinterRemove /\ InTunnelBounds'
    \/ ClientConnect /\ InTunnelBounds'
    \/ ClientClose /\ InTunnelBounds'
    \/ ClientEnded /\ InTunnelBounds'
    \/ TimerFire /\ InTunnelBounds'
    \/ Go2rtcReady /\ InTunnelBounds'
    \/ TunnelUrl /\ InTunnelBounds'
    \/ TunnelExit /\ InTunnelBounds'
    \/ TunnelRestart /\ InTunnelBounds'

\* The tunnel, its base address and the camera URLs of the registered streams
SpecTunnel == Init /\ [][NextTunnel]_vars

InRelayBounds ==
    /\ Bounded(1)
    /\ \A s \in Serials : Cardinality(ClientsOf(s)) <= 1
    /\ Cardinality(relays) <= MaxRelays
    /\ Cardinality(tunnels) <= MaxTunnels
    /\ tunnelTimers <= MaxTunnelTimers
    /\ tunnelRestartAttempts <= MaxTunnelAttempts

\* the device has an RTSP camera, served through go2rtc
InitRelay == Init /\ deviceModel = [s \in Serials |-> "X1C"]

NextRelay ==
    \/ PrinterAdd /\ InRelayBounds'
    \/ ClientConnect /\ InRelayBounds'
    \/ ClientClose /\ InRelayBounds'
    \/ ClientEnded /\ InRelayBounds'
    \/ TimerFire /\ InRelayBounds'
    \/ Go2rtcReady /\ InRelayBounds'
    \/ TunnelExit /\ InRelayBounds'
    \/ TunnelRestart /\ InRelayBounds'
    \/ RelayExit /\ InRelayBounds'
    \/ Go2rtcWatchdog /\ InRelayBounds'
    \/ RegistrationResponse /\ InRelayBounds'
    \/ Go2rtcRestart /\ InRelayBounds'
    \/ Go2rtcSettle /\ InRelayBounds'
    \/ Shutdown /\ InRelayBounds'

\* The relay supervisor with one device session that registers its stream
SpecRelay == InitRelay /\ [][NextRelay]_vars

\* Timers set by setTimeout fire, responses arrive, and a killed process exits
FairSpecRelay ==
    /\ SpecRelay
    /\ WF_vars(Go2rtcReady /\ InRelayBounds')
    /\ WF_vars(Go2rtcWatchdog /\ InRelayBounds')
    /\ WF_vars(RegistrationResponse /\ InRelayBounds')
    /\ WF_vars(Go2rtcRestart /\ InRelayBounds')
    /\ WF_vars(Go2rtcSettle /\ InRelayBounds')
    /\ WF_vars(TimerFire /\ InRelayBounds')

\* ------------------------------------------------------------------------
\* Connection manager properties
\* ------------------------------------------------------------------------
\* C1: removing a printer while a reconnect timer for it is pending cancels
\* that timer, so that no connectPrinter call follows for it: a serial that
\* was removed with a timer pending, and not announced again, has no timer.
C1_RemoveCancelsTimer ==
    \A s \in removedWithTimer : TimersOf(s) = {} /\ Sessions(s) = {}

\* C2: a serial never has two device sessions (connecting or connected) at
\* the same time.
C2_OneSessionPerSerial ==
    \A s \in Serials : Cardinality(Sessions(s)) <= 1

\* C3: a serial has at most one pending reconnect timer, and every pending
\* timer is the one recorded in printerReconnectTimers.
C3_OneRecordedTimer ==
    \A s \in Serials :
        /\ Cardinality(TimersOf(s)) <= 1
        /\ \A t \in TimersOf(s) : printerReconnectTimers[s] = t.id

\* C4: the delays of consecutive failed attempts are 5 s, 10 s, 20 s, 40 s,
\* 60 s and then 120 s, and the failure counter counts the losses since the
\* last successful connect.
C4_DelaySequence ==
    /\ \A t \in timers :
           t.delay = (IF t.attempts < 5
                      THEN <<5000, 10000, 20000, 40000, 60000>>[t.attempts + 1]
                      ELSE 120000)
    /\ \A s \in Serials : reconnectAttempts[s] = losses[s]

\* C5: while a printer is registered, a state without a device session for
\* it (after a connection loss or a failed attempt) is followed by a new
\* connection attempt.
C5_RetriesNeverStop ==
    \A s \in Serials :
        (s \in announced /\ Sessions(s) = {})
            ~> (Sessions(s) # {} \/ s \notin announced)

\* C5 witness: a third attempt is under way after two failed ones
C5_Witness ==
    \E s \in announced :
        /\ reconnectAttempts[s] = 2
        /\ \E c \in Sessions(s) : c.st = "connecting"
        /\ TimersOf(s) = {}

\* C6: a removed serial that was not announced again has no device session,
\* no camera stream or URL and no registry entry.
C6_RemovedStaysGone ==
    \A s \in Serials \ announced :
        /\ Sessions(s) = {}
        /\ ~printers[s].present
        /\ cameraUrls[s] = NoUrl
        /\ s \notin cameraStreams
        /\ s \notin jpegStreams

\* ------------------------------------------------------------------------
\* Packed-temperature properties
\* ------------------------------------------------------------------------
\* C10: decodeTemp returns the pair (current, target) that was packed as
\* (target << 16) | current, for 16-bit values.
C10_DecodeInvertsPack ==
    tempPhase = "decoded" => decoded = tempIn

\* C10 witness: a decoded pair whose target has its high bit set
C10_Witness ==
    /\ tempPhase = "decoded"
    /\ tempIn.target >= 32768
    /\ tempIn.current > 0
    /\ decoded = tempIn

\* ------------------------------------------------------------------------
\* Telemetry merge properties.  The snapshot is printers[MergeSerial]; it
\* is the merge of lastReport into prevEntry.  ok says that lastReport was
\* processed to the end: it parsed and no field of it raised an exception.
\* ------------------------------------------------------------------------
\* C7 as stated: a report that sets the state to idle or finished, with no
\* active error, on a snapshot that was running, paused or preparing, gives
\* progress 0, remaining time 0, every target temperature 0 and no hazards,
\* whatever other fields the report carries.
C7_IdleReportZeroesAll ==
    LET e == printers[MergeSerial]
        ok == /\ lastReport.valid /\ lastReport.lights_report # LightsOther
              /\ ~(lastReport.ams.present /\ lastReport.ams.isArray
                    /\ \E u \in 1..Len(lastReport.ams.ams) : lastReport.ams.ams[u].null)
    IN (/\ nrep > 0 /\ ok
        /\ prevEntry.gcodeState \in PrintingStates
        /\ lastReport.gcode_state \in IdleStates
        /\ lastReport.print_error \in {UndefNum, 0})
       => /\ e.printProgress = 0
          /\ e.remainingTime = 0
          /\ e.nozzleTargetTemp = 0
          /\ e.nozzleTargetTemp2 = 0
          /\ e.bedTargetTemp = 0
          /\ e.hms = <<>>

\* C7, amended: under the same conditions each of progress, remaining time,
\* the target temperatures and the hazard list is zero or empty unless the
\* report itself carries a value for it, and then it is the report's value.
C7_IdleReportZeroesCached ==
    LET e == printers[MergeSerial]
        r == lastReport
        nozzles == nozzleSelect(NoPrinter, r, isH2(e.model))
        ok == /\ r.valid /\ r.lights_report # LightsOther
              /\ ~(r.ams.present /\ r.ams.isArray
                    /\ \E u \in 1..Len(r.ams.ams) : r.ams.ams[u].null)
    IN (/\ nrep > 0 /\ ok
        /\ prevEntry.gcodeState \in PrintingStates
        /\ r.gcode_state \in IdleStates
        /\ r.print_error \in {UndefNum, 0})
       => /\ e.printProgress = Coalesce(r.mc_percent, 0, UndefNum)
          /\ e.remainingTime = Coalesce(r.mc_remaining_time, 0, UndefNum)
          /\ e.bedTargetTemp = Coalesce(r.bed_target_temper, 0, UndefNum)
          /\ e.nozzleTargetTemp = Coalesce(nozzles.nozzle1Target, 0, UndefNum)
          /\ e.nozzleTargetTemp2 = Coalesce(nozzles.nozzle2Target, 0, UndefNum)
          /\ e.hms = Coalesce(r.hms, <<>>, UndefList)

\* C7 witness: a running snapshot at 50 % received a FINISH report that
\* carries no progress, and its progress is 0
C7_Witness ==
    /\ nrep = 2
    /\ prevEntry.gcodeState = "RUNNING"
    /\ prevEntry.printProgress = 50
    /\ lastReport.gcode_state = "FINISH"
    /\ lastReport.mc_percent = UndefNum
    /\ printers[MergeSerial].printProgress = 0

\* C8 as stated: merging the last report once more leaves the snapshot as it
\* is, for every previous snapshot and every report.
C8_MergeIdempotent ==
    nrep > 0 => mergeReport(printers[MergeSerial], lastReport) = printers[MergeSerial]

\* C8, amended: merging the last report once more leaves the snapshot as it
\* is, provided that the first merge left the lifecycle state as it was.
C8_MergeIdempotentSameState ==
    (nrep > 0 /\ prevEntry.gcodeState = printers[MergeSerial].gcodeState)
        => mergeReport(printers[MergeSerial], lastReport) = printers[MergeSerial]

\* C8 witness: a report with a hazard list changed a running snapshot and
\* left its state alone, and merging it again changes nothing
C8_Witness ==
    /\ nrep = 2
    /\ prevEntry.gcodeState = "RUNNING"
    /\ printers[MergeSerial].gcodeState = "RUNNING"
    /\ lastReport.hms = <<7>>
    /\ prevEntry.hms = <<>>
    /\ printers[MergeSerial].hms = <<7>>
    /\ mergeReport(printers[MergeSerial], lastReport) = printers[MergeSerial]

\* C9 as stated: after a report the lifecycle state, progress, remaining
\* time, job name, layer counters, the nozzle, bed and chamber temperatures,
\* the error flag and code and the hazard list are all defined, and each is
\* the report's value, else the previous value, else its default.
C9_AllDefinedByFallback ==
    LET e == printers[MergeSerial]
        r == lastReport
        Falls(new, old, value, default, undef) ==
            value = Coalesce(new, Coalesce(old, default, undef), undef)
        ok == /\ r.valid /\ r.lights_report # LightsOther
              /\ ~(r.ams.present /\ r.ams.isArray
                    /\ \E u \in 1..Len(r.ams.ams) : r.ams.ams[u].null)
    IN (nrep > 0 /\ r.hasPrint /\ ok)
       => /\ e.currentFile # UndefStr
          /\ e.nozzleTemp # UndefNum /\ e.nozzleTargetTemp # UndefNum
          /\ e.nozzleTemp2 # UndefNum /\ e.nozzleTargetTemp2 # UndefNum
          /\ e.chamberTemp # UndefNum
          /\ Falls(r.gcode_state, prevEntry.gcodeState, e.gcodeState, "IDLE", UndefStr)
          /\ Falls(r.mc_percent, prevEntry.printProgress, e.printProgress, 0, UndefNum)
          /\ Falls(r.mc_remaining_time, prevEntry.remainingTime, e.remainingTime, 0,
                   UndefNum)
          /\ Falls(r.layer_num, prevEntry.layer, e.layer, 0, UndefNum)
          /\ Falls(r.total_layer_num, prevEntry.totalLayers, e.totalLayers, 0, UndefNum)
          /\ Falls(r.bed_temper, prevEntry.bedTemp, e.bedTemp, 0, UndefNum)
          /\ Falls(r.bed_target_temper, prevEntry.bedTargetTemp, e.bedTargetTemp, 0,
                   UndefNum)
          /\ Falls(r.print_error, prevEntry.printError, e.printError, 0, UndefNum)
          /\ Falls(r.mc_print_error_code, prevEntry.printErrorCode, e.printErrorCode,
                   "", UndefStr)
          /\ Falls(r.hms, prevEntry.hms, e.hms, <<>>, UndefList)

\* C9, amended: after a report with a print section the lifecycle state,
\* progress, remaining time, job name, layer counters, the first nozzle's
\* and the bed's actual and target temperatures, the chamber temperature,
\* the error flag and code and the hazard list are all defined; each of the
\* directly merged ones is the report's value when the report carries it,
\* and else the previous value or its default.  A message without a print
\* section leaves the snapshot as it is.
C9_RequiredDefined ==
    LET e == printers[MergeSerial]
        r == lastReport
        Falls(new, old, value, default, undef) ==
            /\ value # undef
            /\ IF new # undef THEN value = new ELSE value \in {old, default}
        ok == /\ r.valid /\ r.lights_report # LightsOther
              /\ ~(r.ams.present /\ r.ams.isArray
                    /\ \E u \in 1..Len(r.ams.ams) : r.ams.ams[u].null)
    IN (nrep > 0 /\ ok)
       => IF ~r.hasPrint THEN e = prevEntry
          ELSE /\ e.currentFile # UndefStr
               /\ e.nozzleTemp # UndefNum /\ e.nozzleTargetTemp # UndefNum
               /\ e.chamberTemp # UndefNum
               /\ Falls(r.gcode_state, prevEntry.gcodeState, e.gcodeState, "IDLE",
                        UndefStr)
               /\ Falls(r.mc_percent, prevEntry.printProgress, e.printProgress, 0,
                        UndefNum)
               /\ Falls(r.mc_remaining_time, prevEntry.remainingTime, e.remainingTime,
                        0, UndefNum)
               /\ Falls(r.layer_num, prevEntry.layer, e.layer, 0, UndefNum)
               /\ Falls(r.total_layer_num, prevEntry.totalLayers, e.totalLayers, 0,
                        UndefNum)
               /\ Falls(r.bed_temper, prevEntry.bedTemp, e.bedTemp, 0, UndefNum)
               /\ Falls(r.bed_target_temper, prevEntry.bedTargetTemp, e.bedTargetTemp,
                        0, UndefNum)
               /\ Falls(r.print_error, prevEntry.printError, e.printError, 0, UndefNum)
               /\ Falls(r.mc_print_error_code, prevEntry.printErrorCode,
                        e.printErrorCode, "", UndefStr)
               /\ Falls(r.hms, prevEntry.hms, e.hms, <<>>, UndefList)

\* C9 witness: after two partial reports the progress is the previous value,
\* the layer counter is its default and the job name is defined
C9_Witness ==
    /\ nrep = 2
    /\ lastReport.hasPrint
    /\ lastReport.mc_percent = UndefNum
    /\ prevEntry.printProgress = 50
    /\ printers[MergeSerial].printProgress = 50
    /\ printers[MergeSerial].layer = 0
    /\ printers[MergeSerial].currentFile = ""

\* C11 as stated: on an H2 model the legacy nozzle fields are never used;
\* entry i of the per-extruder array gives nozzle i's current (low 16 bits)
\* and target (high 16 bits); with neither array in the report the previous
\* nozzle values are kept.
C11_H2NozzlesKept ==
    LET e == printers[MergeSerial]
        r == lastReport
        dev == r.device_extruder
        Kept(old, value) == old # UndefNum => value = old
        ok == /\ r.valid /\ r.lights_report # LightsOther
              /\ ~(r.ams.present /\ r.ams.isArray
                    /\ \E u \in 1..Len(r.ams.ams) : r.ams.ams[u].null)
    IN (nrep > 0 /\ r.hasPrint /\ ok /\ deviceModel[MergeSerial] = "H2D")
       => /\ Len(dev) >= 1 =>
                 /\ e.nozzleTemp = dev[1][1] % 65536
                 /\ e.nozzleTargetTemp = (dev[1][1] \div 65536) % 65536
          /\ Len(dev) >= 2 =>
                 /\ e.nozzleTemp2 = dev[2][1] % 65536
                 /\ e.nozzleTargetTemp2 = (dev[2][1] \div 65536) % 65536
          /\ (Len(dev) = 0 /\ Len(r.extruder_info) = 0) =>
                 /\ Kept(prevEntry.nozzleTemp, e.nozzleTemp)
                 /\ Kept(prevEntry.nozzleTargetTemp, e.nozzleTargetTemp)
                 /\ Kept(prevEntry.nozzleTemp2, e.nozzleTemp2)
                 /\ Kept(prevEntry.nozzleTargetTemp2, e.nozzleTargetTemp2)

\* C11, amended: on an H2 model the nozzle values do not depend on the
\* legacy fields of the report; entry i of the per-extruder array gives
\* nozzle i's current and target; with no per-extruder array and a fallback
\* array of fewer than two entries the previous values are kept (0 for the
\* first nozzle when there is none), except that a report resolving the state
\* to idle or finished zeroes the targets, and a transition from
\* running, paused or preparing resets the actual values.
C11_H2NozzlesFromArrays ==
    LET e == printers[MergeSerial]
        r == lastReport
        dev == r.device_extruder
        cur == Coalesce(r.gcode_state, prevEntry.gcodeState, UndefStr)
        idle == cur \in {"IDLE", "FINISH"}
        reset == idle /\ prevEntry.gcodeState \in {"RUNNING", "PAUSE", "PREPARE"}
        noLegacy == [r EXCEPT !.nozzle_temper = UndefNum,
                              !.nozzle_target_temper = UndefNum,
                              !.nozzle_temper_2 = UndefNum,
                              !.nozzle_target_temper_2 = UndefNum]
        ok == /\ r.valid /\ r.lights_report # LightsOther
              /\ ~(r.ams.present /\ r.ams.isArray
                    /\ \E u \in 1..Len(r.ams.ams) : r.ams.ams[u].null)
    IN (nrep > 0 /\ r.hasPrint /\ ok /\ deviceModel[MergeSerial] = "H2D")
       => /\ e = mergeReport(prevEntry, noLegacy)
          /\ Len(dev) >= 1 =>
                 /\ e.nozzleTemp = dev[1][1] % 65536
                 /\ e.nozzleTargetTemp = (dev[1][1] \div 65536) % 65536
          /\ Len(dev) >= 2 =>
                 /\ e.nozzleTemp2 = dev[2][1] % 65536
                 /\ e.nozzleTargetTemp2 = (dev[2][1] \div 65536) % 65536
          /\ (Len(dev) = 0 /\ Len(r.extruder_info) < 2) =>
                 /\ e.nozzleTemp = IF reset THEN 0
                                   ELSE Coalesce(prevEntry.nozzleTemp, 0, UndefNum)
                 /\ e.nozzleTargetTemp = IF idle THEN 0
                                         ELSE Coalesce(prevEntry.nozzleTargetTemp, 0, UndefNum)
                 /\ e.nozzleTemp2 = IF reset THEN UndefNum ELSE prevEntry.nozzleTemp2
                 /\ e.nozzleTargetTemp2 = IF idle THEN 0 ELSE prevEntry.nozzleTargetTemp2

\* C11 witness: an H2D whose nozzles were decoded from the array (150 / 225)
\* receives a report with the legacy field only, and keeps 150 / 225
C11_Witness ==
    /\ nrep = 2
    /\ deviceModel[MergeSerial] = "H2D"
    /\ prevEntry.nozzleTemp = 150 /\ prevEntry.nozzleTargetTemp = 225
    /\ lastReport.nozzle_temper = 210
    /\ lastReport.device_extruder = <<>> /\ lastReport.extruder_info = <<>>
    /\ printers[MergeSerial].nozzleTemp = 150
    /\ printers[MergeSerial].nozzleTargetTemp = 225

\* ------------------------------------------------------------------------
\* Command translation properties.  commands[i] is the i-th command handled
\* and the messages of outbox with cmd = i are the ones it published.
\* ------------------------------------------------------------------------
\* C13: a workLight command for a serial with a recorded client and a model
\* A1 publishes exactly two messages on that client and topic: chamber_light
\* first, work_light second, both with the requested mode.
C13_WorkLightA1TwoPublishes ==
    \A i \in 1..Len(commands) :
        LET c == commands[i]
            Mine(m) == m.cmd = i
            mode == IF c.cmd.on THEN "on" ELSE "off"
            Led(node) == [serial |-> c.serial, client |-> c.client, cmd |-> i,
                          msg |-> [command |-> "ledctrl", arg |-> node, mode |-> mode]]
        IN (c.cmd.type = "workLight" /\ c.client # 0 /\ c.model = "A1")
           => SelectSeq(outbox, Mine) = <<Led("chamber_light"), Led("work_light")>>

\* C13 witness: workLight off on a connected A1, after another command
C13_Witness ==
    /\ Len(commands) = 2
    /\ commands[2].cmd.type = "workLight" /\ ~commands[2].cmd.on
    /\ commands[2].client # 0 /\ commands[2].model = "A1"
    /\ Len(outbox) = 3
    /\ outbox[2].msg.arg = "chamber_light" /\ outbox[2].msg.mode = "off"
    /\ outbox[3].msg.arg = "work_light" /\ outbox[3].msg.mode = "off"

\* C14: a move command handled with a recorded client publishes exactly
\* G91, G0 and G90 in this order on that client, next to each other in the
\* order of publication.
C14_MoveThreeInOrder ==
    \A i \in 1..Len(commands) :
        LET c == commands[i]
            Mine(m) == m.cmd = i
            Line(param) == [serial |-> c.serial, client |-> c.client, cmd |-> i,
                            msg |-> [command |-> "gcode_line", arg |-> param,
                                     mode |-> "-"]]
        IN (c.cmd.type = "move" /\ c.client # 0)
           => /\ SelectSeq(outbox, Mine) =
                     <<Line("G91"), Line("G0 X10 F3000"), Line("G90")>>
              /\ \E k \in 1..(Len(outbox) - 2) :
                     /\ outbox[k] = Line("G91")
                     /\ outbox[k + 1] = Line("G0 X10 F3000")
                     /\ outbox[k + 2] = Line("G90")

\* C14 witness: a move handled while the pushall of an AMS filament setting
\* was pending; the pushall comes after the three lines
C14_Witness ==
    /\ Len(commands) = 2
    /\ commands[1].cmd.type = "amsFilamentSetting"
    /\ commands[2].cmd.type = "move"
    /\ Len(outbox) = 5
    /\ outbox[2].msg.arg = "G91" /\ outbox[4].msg.arg = "G90"
    /\ outbox[5].msg.command = "pushall" /\ outbox[5].cmd = 1

\* C15: a command handled while its serial has no recorded client changes
\* nothing but the log, and no message or timer of it ever exists, also
\* after a client of the serial has connected.
C15_NoSessionNoEffect ==
    /\ [](\A i \in 1..Len(commands) :
              commands[i].client = 0
              => /\ \A k \in 1..Len(outbox) : outbox[k].cmd # i
                 /\ \A t \in pushallTimers : t.cmd # i)
    /\ [][(Len(commands') > Len(commands)
           /\ commands'[Len(commands')].client = 0)
          => UNCHANGED <<outbox, pushallTimers, connVars, camVars>>]_vars

\* C15 witness: a command was dropped for want of a client, then a client
\* connected, and only the later command was published
C15_Witness ==
    /\ Len(commands) = 2
    /\ commands[1].client = 0 /\ commands[1].cmd.type = "pause"
    /\ commands[2].client # 0
    /\ Len(outbox) = 1 /\ outbox[1].cmd = 2

\* C16: a command of an unknown kind or without a kind, and a calibration of
\* an unknown type, publishes nothing although its serial has a client.
C16_UnknownKindDropped ==
    \A i \in 1..Len(commands) :
        LET c == commands[i].cmd
        IN (\/ c.type \notin {"pause", "light", "workLight", "home", "calibration",
                             "move", "amsFilamentSetting"}
            \/ c.type = "calibration" /\ c.calibrationType \notin {"home", "bed_level"})
           => /\ \A k \in 1..Len(outbox) : outbox[k].cmd # i
              /\ \A t \in pushallTimers : t.cmd # i

\* C16 witness: an unknown calibration type and an unknown kind were handled
\* with a client recorded and the outbox is empty
C16_Witness ==
    /\ Len(commands) = 2
    /\ commands[1].client # 0 /\ commands[2].client # 0
    /\ commands[1].cmd.type = "calibration" /\ commands[1].cmd.calibrationType = "z_offset"
    /\ commands[2].cmd.type = "reboot"
    /\ outbox = <<>>

\* ------------------------------------------------------------------------
\* JPEG frame extraction properties
\* ------------------------------------------------------------------------
\* C12: once the stream <noise><frame><frame>, with frames longer than 100
\* bytes, is delivered, exactly its two frames were emitted, each beginning
\* with FFD8 and ending with FFD9, and the receive buffer is empty.
C12_TwoFramesExtracted ==
    (/\ jpegStream # <<>> /\ jpegRest = <<>>
     /\ Len(jpegStream) > 2 * 100)
    => /\ Len(jpegFrames) = 2
       /\ \A i \in 1..Len(jpegFrames) :
              /\ SubSeq(jpegFrames[i], 1, 2) = <<255, 216>>
              /\ SubSeq(jpegFrames[i], Len(jpegFrames[i]) - 1, Len(jpegFrames[i]))
                     = <<255, 217>>
       /\ jpegBuffer = <<>>

\* ------------------------------------------------------------------------
\* go2rtc supervision properties
\* ------------------------------------------------------------------------
\* C17: on every exit of a go2rtc process, whichever operation started it:
\* during shutdown no restart is scheduled; otherwise, with the
\* intentional-stop flag set, no restart is scheduled and the flag is cleared;
\* otherwise the 3 s restart is scheduled.
C17_EveryExitSupervised ==
    [][(\E p \in relays : relays' = relays \ {p})
       => IF isQuitting THEN go2rtcWatchdogTimer' = go2rtcWatchdogTimer
          ELSE IF go2rtcIntentionalKill
          THEN ~go2rtcIntentionalKill' /\ go2rtcWatchdogTimer' = go2rtcWatchdogTimer
          ELSE go2rtcWatchdogTimer']_vars

\* C18: while the intentional-stop flag is set, the exit of a killed process
\* whose 'close' handler clears it is pending; and the exit of a process that
\* was not killed schedules its restart unless shutdown is underway.
C18_FlagConsumedByKilledExit ==
    /\ [](go2rtcIntentionalKill => \E p \in relays : p.by = "start" /\ p.st = "killed")
    /\ [][\A p \in relays :
              (relays' = relays \ {p} /\ p.by = "start" /\ p.st = "running" /\ ~isQuitting)
              => go2rtcWatchdogTimer']_vars

\* C19: a failed stream registration leads to the fallback restart, which
\* writes a configuration listing every known stream, sets the
\* intentional-stop flag and kills the running go2rtc; after the 500 ms delay
\* go2rtc is started on that configuration; and the exit of the killed
\* process schedules no watchdog restart.
C19_FallbackFullRestart ==
    /\ [][(\E s \in requests : requests' = requests \ {s}) /\ go2rtcRestartTimer' # go2rtcRestartTimer
          => go2rtcRestartTimer']_vars
    /\ [][(go2rtcRestartTimer /\ ~go2rtcRestartTimer')
          => /\ go2rtcConfig' = cameraStreams
             /\ go2rtcIntentionalKill'
             /\ \A p \in relays' : p.st = "killed"
             /\ go2rtcSettleTimer']_vars
    /\ [][(go2rtcSettleTimer /\ ~go2rtcSettleTimer')
          => \E p \in relays' \ relays :
                 /\ p.by = "config" /\ p.st = "running" /\ p.config = go2rtcConfig
                 /\ go2rtcProcess' = p.id]_vars
    /\ [][\A p \in relays :
              (relays' = relays \ {p} /\ p.st = "killed")
              => go2rtcWatchdogTimer' = go2rtcWatchdogTimer]_vars

\* C20: a stream registration queued while go2rtc was not ready is
\* eventually issued, and the queue is then empty, unless the program shuts down.
C20_QueuedEventuallyIssued ==
    (pendingStreams # <<>> /\ ~isQuitting) ~> (pendingStreams = <<>> \/ isQuitting)

\* ------------------------------------------------------------------------
\* Shutdown properties
\* ------------------------------------------------------------------------
\* C21: once shutdown has begun, no reconnect, watchdog or tunnel restart
\* timer is pending, no go2rtc or cloudflared process is left running, no
\* device session is connected, and no later step schedules a timer or
\* spawns a client, a go2rtc or a cloudflared process.
C21_ShutdownIsFinal ==
    /\ [](isQuitting => /\ timers = {}
                        /\ ~go2rtcWatchdogTimer
                        /\ tunnelTimers = 0
                        /\ \A p \in relays : p.st # "running"
                        /\ \A p \in tunnels : p.st # "running"
                        /\ \A c \in clients : c.st # "connected")
    /\ [][isQuitting => /\ Cardinality(clients') <= Cardinality(clients)
                        /\ Cardinality(relays') <= Cardinality(relays)
                        /\ Cardinality(tunnels') <= Cardinality(tunnels)]_vars

(* C22: a watchdog tick that finds the stream silent force-closes the socket and opens
   no socket itself: the one reconnection that follows is the one the 'close' handler
   schedules through the backoff timer, so a stream never has more than one socket or
   pending reconnect at a time. *)
C22_WatchdogOneReconnect ==
    /\ [][\A k \in camSockets :
             (/\ k.st # "destroyed" /\ ~k.orphan
              /\ k.serial \in jpegStreams'
              /\ [k EXCEPT !.st = "destroyed"] \in camSockets')
             => Cardinality(camSockets') = Cardinality(camSockets)]_vars
    /\ [](\A s \in Serials :
             Cardinality({k \in camSockets :
                             k.serial = s /\ ~k.orphan /\ k.st # "destroyed"})
                 + camTimers[s].cur <= 1)

(* C23: a report whose processing fails, because the payload does not parse or a field
   has an unexpected shape, is discarded as a whole: the registry (the snapshot of its
   serial and every other entry) and the connection state are exactly as before. *)
C23_FailedReportDiscarded ==
    [][LET r == lastReport'
           fails == \/ ~r.valid
                    \/ r.hasPrint /\ r.lights_report = LightsOther
                    \/ r.hasPrint /\ r.ams.present /\ r.ams.isArray
                          /\ \E u \in 1..Len(r.ams.ams) : r.ams.ams[u].null
       IN (nrep' = nrep + 1 /\ fails)
              => /\ printers' = printers
                 /\ clients' = clients
                 /\ mqttClients' = mqttClients]_vars

(* C24 as stated: after a report without a feeder array the whole filament system of
   the snapshot, humidity and active tray included, is the one of the previous
   snapshot. *)
C24_NoArrayKeepsFilament ==
    [][LET r == lastReport'
       IN (nrep' = nrep + 1 /\ r.valid /\ r.hasPrint /\ ~(r.ams.present /\ r.ams.isArray))
              => \A s \in Serials : printers'[s].ams = printers[s].ams]_vars

(* C24 amended: units and trays are rebuilt from the report alone exactly when it
   carries a feeder array and are the previous ones otherwise; humidity and the
   active tray are the report's when its ams object carries them and the previous
   ones otherwise. *)
C24_UnitsRebuiltOnlyFromArray ==
    [][LET r == lastReport'
           bad == \/ r.lights_report = LightsOther
                  \/ r.ams.present /\ r.ams.isArray
                        /\ \E u \in 1..Len(r.ams.ams) : r.ams.ams[u].null
       IN (nrep' = nrep + 1 /\ r.valid /\ r.hasPrint /\ ~bad)
              => \A s \in Serials :
                     LET old == printers[s].ams
                         new == printers'[s].ams
                     IN /\ IF r.ams.present /\ r.ams.isArray
                           THEN /\ new.units = amsRebuild(r.ams.ams, 1).units
                                /\ new.trays = amsRebuild(r.ams.ams, 1).trays
                           ELSE /\ new.units = old.units
                                /\ new.trays = old.trays
                        /\ new.humidity = IF r.ams.present /\ r.ams.ams_humidity # UndefNum
                                          THEN r.ams.ams_humidity ELSE old.humidity
                        /\ new.trayNow = IF r.ams.present /\ r.ams.tray_now # UndefNum
                                         THEN r.ams.tray_now ELSE old.trayNow]_vars

\* a report without feeder array changed the active tray and kept the units
C24_Witness ==
    /\ nrep = 2
    /\ lastReport.ams.present /\ ~lastReport.ams.isArray
    /\ lastReport.ams.tray_now # UndefNum
    /\ \E s \in Serials : /\ Len(printers[s].ams.units) > 0
                          /\ Len(printers[s].ams.trays) > 0
                          /\ printers[s].ams.trayNow # prevEntry.ams.trayNow
                          /\ printers[s].ams.units = prevEntry.ams.units

(* C25 as stated: every close of a device session leaves the serial offline in the
   registry, emits an offline status whenever the cloud channel is connected, and
   sets a reconnect timer only if a descriptor of the serial is cached. *)
C25_CloseMarksAndEmits ==
    [][\A c \in clients :
          clients' = clients \ {c}
              => /\ ~printers'[c.serial].online
                 /\ apiConnected => offlineEmits'[c.serial] # offlineEmits[c.serial]
                 /\ timers' # timers => printerDataCache[c.serial] # NoDescriptor]_vars

(* C25 amended: the offline mark and the offline status depend on the registry holding
   an entry of the serial: with an entry the close marks it offline and, if the cloud
   channel is connected, emits one offline status; without an entry nothing is marked
   or emitted.  A reconnect timer is set only if a descriptor is cached. *)
C25_CloseMarksEntry ==
    [][\A c \in clients :
          clients' = clients \ {c}
              => LET s == c.serial
                 IN /\ ~printers'[s].online
                    /\ printers'[s].present = printers[s].present
                    /\ (printers[s].present /\ apiConnected)
                           => offlineEmits'[s] # offlineEmits[s]
                    /\ ~(printers[s].present /\ apiConnected)
                           => offlineEmits' = offlineEmits
                    /\ timers' # timers => printerDataCache[s] # NoDescriptor]_vars

\* a session closed while the channel was up: entry offline, one status emitted,
\* reconnect timer pending
C25_Witness ==
    /\ apiConnected
    /\ \E s \in Serials : /\ offlineEmits[s] = 1
                          /\ printers[s].present /\ ~printers[s].online
                          /\ mqttClients[s] = 0
                          /\ \E t \in timers : t.serial = s

(* C26: the camera URL stored for a serial that has a camera stream is always on the
   current base address: a change of the tunnel URL recomputes every such URL, and a
   URL set later is built from the current base. *)
C26_UrlsOnCurrentBase ==
    \A s \in Serials :
        (s \in cameraStreams \cup jpegStreams /\ cameraUrls[s] # NoUrl)
            => cameraUrls[s] = (IF tunnelUrl # NoTunnelUrl THEN tunnelUrl ELSE LocalUrl)

(* C27: when the control plane announces a serial again with a different descriptor,
   the cached descriptor becomes the new one, with or without a connected session,
   and every session opened afterwards uses the descriptor announced last. *)
C27_DescriptorReplaced ==
    [][\A s \in Serials :
          /\ deviceModel'[s] # deviceModel[s] => printerDataCache'[s] = deviceModel'[s]
          /\ \A c \in clients' :
                (c.serial = s /\ ~\E d \in clients : d.serial = s /\ d.id = c.id)
                    => c.printer = deviceModel'[s]]_vars

(* C28: the transport errors of a serial are logged at most once per 60-second window,
   whatever the interleaving of error, connect and close events: any two logged errors
   of one serial are at least 60 s apart. *)
C28_ErrorLogThrottled ==
    \A s \in Serials :
        \A i \in 1..Len(errorLog[s]), j \in 1..Len(errorLog[s]) :
            i < j => (errorLog[s][j] - errorLog[s][i]) * TickMs >= ErrorThrottleMs

(* C29: for a model that is not an H2, a processed report that carries the legacy
   nozzle fields sets the snapshot's nozzle temperature and target to them, whatever
   else the report carries. *)
C29_LegacyFieldsWin ==
    [][LET r == lastReport'
           bad == \/ r.lights_report = LightsOther
                  \/ r.ams.present /\ r.ams.isArray
                        /\ \E u \in 1..Len(r.ams.ams) : r.ams.ams[u].null
       IN (nrep' = nrep + 1 /\ r.valid /\ r.hasPrint /\ ~bad)
              => \A s \in Serials :
                     (printers[s].present /\ printers[s].model # "H2D")
                         => /\ r.nozzle_temper # UndefNum
                                  => printers'[s].nozzleTemp = r.nozzle_temper
                            /\ r.nozzle_target_temper # UndefNum
                                  => printers'[s].nozzleTargetTemp = r.nozzle_target_temper]_vars

(* C30 as stated: in a state resolved to idle or finished, a report with a nonzero
   print_error leaves a nonzero error flag in the snapshot, and a report with no or a
   zero print_error leaves the error flag 0 and the error code empty. *)
C30_ErrorClearedToEmpty ==
    [][LET r == lastReport'
           bad == \/ r.lights_report = LightsOther
                  \/ r.ams.present /\ r.ams.isArray
                        /\ \E u \in 1..Len(r.ams.ams) : r.ams.ams[u].null
       IN (nrep' = nrep + 1 /\ r.valid /\ r.hasPrint /\ ~bad)
              => \A s \in Serials :
                     LET state == IF r.gcode_state # UndefStr THEN r.gcode_state
                                  ELSE printers[s].gcodeState
                     IN (printers[s].present /\ state \in {"IDLE", "FINISH"})
                            => IF r.print_error # UndefNum /\ r.print_error # 0
                               THEN printers'[s].printError # 0
                               ELSE /\ printers'[s].printError = 0
                                    /\ printers'[s].printErrorCode = ""]_vars

(* C30 amended: in a state resolved to idle or finished, a report with a nonzero
   print_error puts its value in the error flag and keeps the stored error code unless
   the report carries one; a report with no or a zero print_error leaves the flag 0 and
   nothing of the stored code: the code is the report's own, or empty. *)
C30_StoredErrorCleared ==
    [][LET r == lastReport'
           bad == \/ r.lights_report = LightsOther
                  \/ r.ams.present /\ r.ams.isArray
                        /\ \E u \in 1..Len(r.ams.ams) : r.ams.ams[u].null
       IN (nrep' = nrep + 1 /\ r.valid /\ r.hasPrint /\ ~bad)
              => \A s \in Serials :
                     LET state == IF r.gcode_state # UndefStr THEN r.gcode_state
                                  ELSE printers[s].gcodeState
                         old == printers[s]
                         new == printers'[s]
                     IN (old.present /\ state \in {"IDLE", "FINISH"})
                            => IF r.print_error # UndefNum /\ r.print_error # 0
                               THEN /\ new.printError = r.print_error
                                    /\ new.printErrorCode =
                                           IF r.mc_print_error_code # UndefStr
                                           THEN r.mc_print_error_code
                                           ELSE IF old.printErrorCode # UndefStr
                                           THEN old.printErrorCode ELSE ""
                               ELSE /\ new.printError = 0
                                    /\ new.printErrorCode =
                                           IF r.mc_print_error_code # UndefStr
                                           THEN r.mc_print_error_code ELSE ""]_vars

\* an idle report without print_error has cleared a stored error and its code
C30_Witness ==
    /\ nrep = 2
    /\ prevEntry.printError = 5 /\ prevEntry.printErrorCode = "E1"
    /\ lastReport.print_error = UndefNum
    /\ \E s \in Serials : /\ printers[s].gcodeState \in {"IDLE", "FINISH"}
                          /\ printers[s].printError = 0
                          /\ printers[s].printErrorCode = ""

(* C31: the actual nozzle, bed and chamber temperatures are reset once per transition
   from printing to idle: on the report that takes a running, paused or preparing
   snapshot to idle or finished each of them is the value that report supplies, and 0
   when it supplies none; on a later report in the idle or finished state a
   temperature the report does not supply is the previous one. *)
C31_ResetOncePerTransition ==
    [][LET r == lastReport'
           bad == \/ r.lights_report = LightsOther
                  \/ r.ams.present /\ r.ams.isArray
                        /\ \E u \in 1..Len(r.ams.ams) : r.ams.ams[u].null
       IN (nrep' = nrep + 1 /\ r.valid /\ r.hasPrint /\ ~bad)
              => \A s \in Serials :
                     LET old == printers[s]
                         new == printers'[s]
                         h2 == old.model = "H2D"
                         state == IF r.gcode_state # UndefStr THEN r.gcode_state
                                  ELSE old.gcodeState
                         idle == state \in {"IDLE", "FINISH"}
                         chamber == IF r.chamber_temper # UndefNum THEN r.chamber_temper
                                    ELSE IF h2 /\ r.info_temp # UndefNum THEN r.info_temp
                                    ELSE IF r.ctc_temp # UndefNum THEN r.ctc_temp % 65536
                                    ELSE UndefNum
                         nozzle == IF Len(r.device_extruder) >= 1
                                   THEN r.device_extruder[1][1] % 65536
                                   ELSE IF Len(r.extruder_info) >= 2
                                   THEN r.extruder_info[1][1] % 65536
                                   ELSE IF ~h2 THEN r.nozzle_temper ELSE UndefNum
                     IN /\ (old.gcodeState \in {"RUNNING", "PAUSE", "PREPARE"} /\ idle)
                            => /\ new.nozzleTemp = IF nozzle # UndefNum THEN nozzle ELSE 0
                               /\ new.bedTemp = IF r.bed_temper # UndefNum
                                                THEN r.bed_temper ELSE 0
                               /\ new.chamberTemp = IF chamber # UndefNum
                                                    THEN chamber ELSE 0
                        /\ (old.gcodeState \in {"IDLE", "FINISH"} /\ idle)
                            => /\ nozzle = UndefNum => new.nozzleTemp = old.nozzleTemp
                               /\ r.bed_temper = UndefNum => new.bedTemp = old.bedTemp
                               /\ chamber = UndefNum
                                     => new.chamberTemp = old.chamberTemp]_vars

(* C32: a filament-slot configuration command that finds a session publishes exactly
   one setting message, whose material code is the explicit code when one is given,
   else the table entry of the material type, else the generic default GFL99; at most
   one delayed pushall follows it, and none when the publish was not acknowledged. *)
C32_OneSettingThenPushall ==
    \A i \in 1..Len(commands) :
        LET c == commands[i]
            Setting(m) == m.cmd = i /\ m.msg.command = "ams_filament_setting"
            Pushall(m) == m.cmd = i /\ m.msg.command = "pushall"
            code == IF c.cmd.trayInfoIdx # "" THEN c.cmd.trayInfoIdx
                    ELSE IF c.cmd.trayType \in DOMAIN filamentCodeMap
                    THEN filamentCodeMap[c.cmd.trayType]
                    ELSE "GFL99"
            pending == Cardinality({t \in pushallTimers : t.cmd = i})
            sent == Len(SelectSeq(outbox, Pushall))
        IN (c.cmd.type = "amsFilamentSetting" /\ c.client # 0)
               => /\ Len(SelectSeq(outbox, Setting)) = 1
                  /\ SelectSeq(outbox, Setting)[1].msg.arg = code
                  /\ pending + sent <= 1
                  /\ ~c.acked => pending + sent = 0

\* ------------------------------------------------------------------------
\* MJPEG viewers
\* ------------------------------------------------------------------------
(* C33: the frames a data event extracts are written, in order, to every viewer
   attached to the serial's stream at that time, and the last of them becomes the
   stream's last frame; a viewer that attaches is sent the last frame at once when
   there is one, and nothing else; a viewer that has disconnected is written no
   frame any more. *)
C33_FramesReachViewers ==
    [][/\ \A v \in viewers :
             LET after == {w \in viewers' : w.id = v.id}
                 new == SubSeq(jpegFrames', Len(jpegFrames) + 1, Len(jpegFrames'))
             IN /\ Cardinality(after) = 1
                /\ \A w \in after :
                       /\ v.st = "attached" => w.got = v.got \o new
                       /\ v.st = "closed" => w.got = v.got
       /\ \A s \in Serials :
             Len(jpegFrames') > Len(jpegFrames)
                 => streamData'[s].frame = jpegFrames'[Len(jpegFrames')]
       /\ \A w \in viewers' :
             (\A v \in viewers : v.id # w.id)
                 => /\ w.st = "attached" /\ w.serial \in jpegStreams
                    /\ w.got = IF streamData[w.serial].frame # <<>>
                               THEN <<streamData[w.serial].frame>> ELSE <<>>]_vars

\* two different frames were extracted: a viewer that left after the first was
\* written no second one, and a viewer that attached after the second was sent it
C33_Witness ==
    /\ Len(jpegFrames) = 2 /\ jpegFrames[1] # jpegFrames[2]
    /\ \E v \in viewers, w \in viewers :
          /\ v.st = "closed" /\ v.got = <<jpegFrames[1]>>
          /\ w.st = "attached" /\ w.got = <<jpegFrames[2]>>

(* C34: a serial with an active JPEG stream has at most one live camera socket, and
   the socket field of its stream record refers to that socket: neither a close
   forced by the watchdog nor an ordinary close leaves two sockets feeding the same
   receive buffer, and the close of an old socket does not clear the reference to a
   newer one. *)
C34_OneLiveSocket ==
    \A s \in jpegStreams :
        LET live == {k \in camSockets : k.serial = s /\ ~k.orphan
                                         /\ k.st \in {"connecting", "open"}}
        IN /\ Cardinality(live) <= 1
           /\ \A k \in live : streamData[s].socket = k.id

(* C35: the frames extracted from a byte stream do not depend on how the socket cuts
   it into data events, a cut between the two bytes of a start or an end marker
   included: once the whole stream is delivered, the frames are the ones extracted
   from the stream delivered in a single event. *)
C35_ChunkingIrrelevant ==
    (jpegStream # <<>> /\ jpegRest = <<>>)
        => jpegFrames = processJpegBuffer(jpegStream, <<>>).frames

(* C36: at most one tunnel process is alive at any instant: startTunnel is never
   invoked while a tunnel process spawned before has not exited, whatever the
   sequence of relay starts, relay crashes with watchdog restarts and tunnel exits. *)
C36_OneTunnel ==
    Cardinality(tunnels) <= 1

(* C38: while go2rtcReady is set the relay process handle exists, also when the
   process exits before its 2-second readiness timer fires. *)
C38_ReadyHasProcess ==
    go2rtcReady => go2rtcProcess # 0

(* C37: at most one relay process is running at any instant, and the process handle
   refers to the running process when there is one: a watchdog restart and a fallback
   restart, or two fallback restarts, never spawn a relay beside a running one. *)
C37_OneRelay ==
    LET running == {p \in relays : p.st = "running"}
    IN /\ Cardinality(running) <= 1
       /\ \A p \in running : go2rtcProcess = p.id

(* C39: after the operator has disconnected from the control plane no device session
   is opened for a serial before the control plane is connected again and has
   announced that serial again, and the close of a session that the disconnect ended
   schedules no reconnect. *)
C39_NoSessionAfterDisconnect ==
    [][/\ \A c \in clients' :
             (\A d \in clients : d.id # c.id)
                 => apiConnected' /\ c.serial \in announced'
       /\ \A c \in clients :
             (c.st = "ending" /\ c \notin clients') => timers' \subseteq timers]_vars

(* C40: a registry entry marked online has a live session recorded in the connection
   map for its serial, and the close of a session that is not the recorded one leaves
   the entry of the map as it is: the close of a stale session neither removes nor
   orphans a newer one. *)
C40_OnlineHasRecordedSession ==
    /\ [](\A s \in Serials :
             (printers[s].present /\ printers[s].online)
                 => \E c \in clients : /\ c.serial = s /\ c.id = mqttClients[s]
                                        /\ c.st = "connected")
    /\ [][\A c \in clients :
             ((\A d \in clients' : d.id # c.id) /\ mqttClients[c.serial] # c.id)
                 => mqttClients'[c.serial] = mqttClients[c.serial]]_vars

====
